---------------------------- MODULE Spec2Model ----------------------------
(***************************************************************************)
(* Audio Sync Master: the reconciliation engine (src/audio_backend.py),    *)
(* its configuration store (src/config.py) and the audio server it drives  *)
(* through pactl.                                                          *)
(*                                                                         *)
(* Sink names are sequences of tokens (the pieces between the dots of the  *)
(* real name), so that the substring tests of the code (a marker inside a  *)
(* name, "sink=<name>" inside an argument line) are computed, not assumed. *)
(* Modules are kept as the sequence pactl lists them in (id order).        *)
(***************************************************************************)
EXTENDS Integers, Sequences, FiniteSets, TLC

VARIABLES
    pa,            \* the audio server's graph (external, reached through pactl)
    cfg,           \* Config._config: the persisted settings
    is_pipewire,   \* AudioBackend._is_pipewire: the backend strategy flag
    state,         \* AudioBackend._state: the last observed topology
    lock,          \* AudioBackend._lock: "" when free, else the holder
    pc,            \* each caller's position in the operation it is running
    last,          \* the outcome of the operation completed by the last step
    hist,          \* history: the server at construction, whether the graph is as a pass left it
    mon,           \* the device monitor: _monitor_running, _monitor_thread, the listener threads
    job            \* the operation that is part-way through its commands, if any

vars == <<pa, cfg, is_pipewire, state, lock, pc, last, hist, mon, job>>

---------------------------------------------------------------------------
(* Bounds of the model.                                                    *)

MaxModules == 4      \* modules of ours the server holds at once
MaxStreams == 1      \* application streams playing at once
MaxThreads == 2      \* listener threads started over the run
MaxPipe == 2         \* event lines waiting in a listener's pipe
MaxCall == 24        \* the calls of run_cmd within a pass that may be the one to fail

---------------------------------------------------------------------------
(* Names.                                                                  *)

NoSink == <<>>
virtual_sink == <<"audio_master">>
EqSink == <<"eq_sink">>
Card1 == <<"alsa_output", "card1">>
Speaker1 == <<"bluez_sink", "speaker1">>
\* a second card of the same kind: the server appends a suffix to its name
Card1Twin == <<"alsa_output", "card1", "2">>

HwSinks == {Card1, Speaker1}

DEFAULT_ANALOG_DELAY == 121
DEFAULT_BT_DELAY == 1

\* marker in name: the name holds the token
Contains(name, tok) == \E i \in 1..Len(name) : name[i] = tok

\* name.startswith(prefix + '.')
StartsWith(name, tok) == Len(name) >= 1 /\ name[1] = tok

\* f'sink={a}' in args, where args holds "sink=<b> ": a is a leading part of b
IsPrefix(a, b) == Len(a) <= Len(b) /\ \A i \in 1..Len(a) : a[i] = b[i]

RECURSIVE SeqToSet(_)
SeqToSet(s) == IF s = <<>> THEN {} ELSE {Head(s)} \cup SeqToSet(Tail(s))

RECURSIVE SelectSeqBy(_, _)
SelectSeqBy(s, keep) ==
    IF s = <<>> THEN <<>>
    ELSE IF Head(s) \in keep THEN <<Head(s)>> \o SelectSeqBy(Tail(s), keep)
    ELSE SelectSeqBy(Tail(s), keep)

RemoveAt(s, i) == [j \in 1..(Len(s) - 1) |-> IF j < i THEN s[j] ELSE s[j + 1]]


---------------------------------------------------------------------------
(* The audio server (external).  pa is a record:                           *)
(*   sinks    hardware sinks, in the order pactl lists them                *)
(*   eq       whether the equalizer's sink eq_sink exists                  *)
(*   def      the default sink (NoSink when there is none)                 *)
(*   modules  null-sink, combine-sink and loopback modules, by id          *)
(*   streams  application streams (sink inputs), by index                  *)
(*   port     per hardware sink, the latency offset of its active port, ms *)

\* the id the model gives the equalizer's module-ladspa-sink (ours start at 1)
EqModuleId == 0

NullSink == "module-null-sink"
CombineSink == "module-combine-sink"
Loopback == "module-loopback"

Module(id, name, sink, slaves, latency) ==
    [id |-> id, name |-> name, sink |-> sink, slaves |-> slaves, latency |-> latency]

HwSet(p) == SeqToSet(p.sinks)

ModuleIds(p) == {p.modules[i].id : i \in 1..Len(p.modules)}

\* argument line holds sink_name=<virtual_sink>
BearsVirtualName(m) ==
    m.name \in {NullSink, CombineSink} /\ IsPrefix(virtual_sink, m.sink)

VirtualSinkExists(p) ==
    \E i \in 1..Len(p.modules) :
        p.modules[i].name \in {NullSink, CombineSink} /\ p.modules[i].sink = virtual_sink

SinkExists(p, s) ==
    \/ s \in HwSet(p)
    \/ s = virtual_sink /\ VirtualSinkExists(p)
    \/ s = EqSink /\ p.eq

\* The server never leaves a vanished sink as default or as a stream's sink:
\* it falls back to another sink and rescues the streams onto it.
ServerFallback(p) ==
    IF p.def # NoSink /\ SinkExists(p, p.def) THEN p.def
    ELSE IF p.sinks # <<>> THEN Head(p.sinks)
    ELSE IF VirtualSinkExists(p) THEN virtual_sink
    ELSE IF p.eq THEN EqSink
    ELSE NoSink

Settle(p) ==
    LET d == ServerFallback(p)
        kept == {i \in 1..Len(p.streams) : d # NoSink \/ SinkExists(p, p.streams[i].sink)}
        moved == [i \in 1..Len(p.streams) |->
                    IF SinkExists(p, p.streams[i].sink) THEN p.streams[i]
                    ELSE [p.streams[i] EXCEPT !.sink = d]]
    IN [p EXCEPT !.def = d,
                 !.streams = SelectSeqBy(moved, {moved[i] : i \in kept})]

NextModuleId(p) ==
    IF p.modules = <<>> THEN 1 ELSE p.modules[Len(p.modules)].id + 1

\* Commands are records [c, a, b]: the pactl verb and its two operands.
Cmd(c, a, b) == [c |-> c, a |-> a, b |-> b]

MutatingVerbs ==
    {"load-module", "unload-module", "set-default-sink", "set-sink-mute",
     "set-sink-volume", "move-sink-input", "set-port-latency-offset",
     "restart-services"}

\* Whether the server carries the command out (pactl exits 0).
Accepts(p, cmd) ==
    CASE cmd.c = "load-module" ->
            IF cmd.a = Loopback
            THEN VirtualSinkExists(p) /\ SinkExists(p, cmd.b.sink)
            ELSE IF cmd.a = "module-ladspa-sink"
            THEN VirtualSinkExists(p) /\ ~p.eq
            ELSE TRUE
      [] cmd.c = "unload-module" ->
            IF cmd.a = EqModuleId THEN p.eq ELSE cmd.a \in ModuleIds(p)
      [] cmd.c = "set-default-sink" -> SinkExists(p, cmd.a)
      [] cmd.c = "set-sink-mute" -> SinkExists(p, cmd.a)
      [] cmd.c = "set-sink-volume" -> SinkExists(p, cmd.a)
      [] cmd.c = "move-sink-input" ->
            /\ cmd.a[1] = "app" => cmd.a[2] \in 1..Len(p.streams)
            /\ SinkExists(p, cmd.b)
      [] cmd.c = "set-port-latency-offset" -> cmd.a \in HwSet(p)
      [] cmd.c = "restart-services" -> TRUE
      [] OTHER -> FALSE

\* The graph after the server has carried the command out.
Exec(p, cmd) ==
    CASE cmd.c = "load-module" ->
            IF cmd.a = "module-ladspa-sink" THEN [p EXCEPT !.eq = TRUE]
            ELSE [p EXCEPT !.modules =
                    Append(@, Module(NextModuleId(p), cmd.a, cmd.b.sink,
                                     cmd.b.slaves, cmd.b.latency))]
      [] cmd.c = "unload-module" ->
            IF cmd.a = EqModuleId THEN Settle([p EXCEPT !.eq = FALSE])
            ELSE Settle([p EXCEPT !.modules =
                    SelectSeqBy(@, {@[i] : i \in {j \in 1..Len(@) : @[j].id # cmd.a}})])
      [] cmd.c = "set-default-sink" -> [p EXCEPT !.def = cmd.a]
      [] cmd.c = "move-sink-input" ->
            IF cmd.a[1] = "app"
            THEN [p EXCEPT !.streams[cmd.a[2]].sink = cmd.b]
            ELSE p
      [] cmd.c = "set-port-latency-offset" -> [p EXCEPT !.port[cmd.a] = cmd.b]
      [] cmd.c = "restart-services" ->
            \* the server starts afresh: no module of ours, no stream
            Settle([p EXCEPT !.eq = FALSE, !.def = NoSink,
                             !.modules = <<>>, !.streams = <<>>])
      [] OTHER -> p

\* Ids are only handles: renumber them 1..n in order once an operation is over.
Compact(p) ==
    [p EXCEPT !.modules = [i \in 1..Len(@) |-> [@[i] EXCEPT !.id = i]]]

---------------------------------------------------------------------------
(* run_cmd.  A context c carries the graph, the commands issued so far,    *)
(* the number of run_cmd calls made and the result of the last one.  F is  *)
(* the set of calls (by their number within the operation) that time out,  *)
(* exit non-zero or find no executable.                                    *)

Ctx(p) == [pa |-> p, log |-> <<>>, k |-> 0, r |-> TRUE]

\* run_cmd(*args): True when the command ran and exited 0
run_cmd(c, F, cmd) ==
    LET done == (c.k + 1) \notin F /\ Accepts(c.pa, cmd)
    IN [pa |-> IF done THEN Exec(c.pa, cmd) ELSE c.pa,
        log |-> Append(c.log, [c |-> cmd.c, a |-> cmd.a, b |-> cmd.b, ok |-> done]),
        k |-> c.k + 1,
        r |-> done]


---------------------------------------------------------------------------
(* What pactl lists.                                                       *)

\* A sink input as pactl prints it.  owner 0 is "n/a"; "" and <<>> are absent.
\* An application's stream has no owner module; a stream record carries the
\* field all the same, as the listing does.
SinkInput(id, owner, driver, app, media, sink) ==
    [id |-> id, owner |-> owner, driver |-> driver, app |-> app,
     media |-> media, sink |-> sink]

AppStreamKinds ==
    {[app |-> "Firefox", media |-> <<"Playback">>, driver |-> <<"protocol-native", "c">>]}

\* the streams the server's own modules create
RECURSIVE ModuleInputs(_)
ModuleInputs(ms) ==
    IF ms = <<>> THEN <<>>
    ELSE LET m == Head(ms)
             mine ==
               IF m.name = Loopback
               THEN <<SinkInput(<<"mod", m.id, m.sink>>, m.id, <<"module-loopback", "c">>,
                                "", <<"Loopback", "from", "Monitor">>, m.sink)>>
               ELSE IF m.name = CombineSink
               THEN [i \in 1..Len(m.slaves) |->
                        SinkInput(<<"mod", m.id, m.slaves[i]>>, m.id,
                                  <<"module-combine-sink", "c">>, "",
                                  <<"Simultaneous", "output">>, m.slaves[i])]
               ELSE <<>>
         IN mine \o ModuleInputs(Tail(ms))

\* pactl list sink-inputs
ListSinkInputs(p) ==
    [i \in 1..Len(p.streams) |->
        SinkInput(<<"app", i>>, p.streams[i].owner, p.streams[i].driver, p.streams[i].app,
                  p.streams[i].media, p.streams[i].sink)]
    \o ModuleInputs(p.modules)
    \o (IF p.eq
        THEN <<SinkInput(<<"eq">>, 0, <<"module-ladspa-sink", "c">>, "module-ladspa-sink",
                         <<"LADSPA", "Stream">>, virtual_sink)>>
        ELSE <<>>)

\* pactl list sinks (and its short form): the names, in index order
ListSinks(p) ==
    p.sinks \o (IF VirtualSinkExists(p) THEN <<virtual_sink>> ELSE <<>>)
            \o (IF p.eq THEN <<EqSink>> ELSE <<>>)

---------------------------------------------------------------------------
(* Stream enumeration.                                                     *)

\* _find_loopback_module_ids on the module listing it got
LoopbackIdsIn(mods) == {mods[i].id : i \in {j \in 1..Len(mods) : mods[j].name = Loopback}}

CombineIdsIn(mods) == {mods[i].id : i \in {j \in 1..Len(mods) : mods[j].name = CombineSink}}

\* IsInfrastructure that does not know the equalizer's stream by its name
IsInfrastructure_NoEq(x, loopback_modules, combine_modules) ==
    \/ x.owner # 0 /\ (x.owner \in loopback_modules \/ x.owner \in combine_modules)
    \/ x.driver # <<>> /\ (Contains(x.driver, "module-loopback")
                            \/ Contains(x.driver, "module-combine-sink"))
    \/ x.app \in {"module-loopback", "module-combine-sink"}
    \/ x.media # <<>> /\ (Contains(x.media, "Loopback") \/ Contains(x.media, "Simultaneous"))

\* the four exclusion rules of list_movable_sink_inputs, applied to one stream
IsInfrastructure(x, loopback_modules, combine_modules) ==
    \/ x.owner # 0 /\ (x.owner \in loopback_modules \/ x.owner \in combine_modules)
    \/ x.driver # <<>> /\ (Contains(x.driver, "module-loopback")
                            \/ Contains(x.driver, "module-combine-sink"))
    \/ x.app \in {"module-loopback", "module-ladspa-sink", "module-combine-sink"}
    \/ x.media # <<>> /\ (Contains(x.media, "Loopback") \/ Contains(x.media, "Simultaneous"))

RECURSIVE MovableOf(_, _, _)
MovableOf(inputs, loopback_modules, combine_modules) ==
    IF inputs = <<>> THEN <<>>
    ELSE (IF IsInfrastructure(Head(inputs), loopback_modules, combine_modules)
          THEN <<>> ELSE <<Head(inputs).id>>)
         \o MovableOf(Tail(inputs), loopback_modules, combine_modules)

\* the n-th query from context c on returns output
Answered(c, F, n) == (c.k + n) \notin F

\* the context after n queries
Queried(c, n) == [c EXCEPT !.k = @ + n, !.r = TRUE]

\* list_movable_sink_inputs(): [c, ids], the context after its queries and
\* the ids.  The sink-input listing and the two module listings are separate
\* queries and fail separately; an empty listing returns before the others.
list_movable_sink_inputs(c, F) ==
    IF ~Answered(c, F, 1) \/ ListSinkInputs(c.pa) = <<>>
    THEN [c |-> Queried(c, 1), ids |-> <<>>]
    ELSE [c |-> Queried(c, 3),
          ids |-> MovableOf(ListSinkInputs(c.pa),
                     IF Answered(c, F, 2) THEN LoopbackIdsIn(c.pa.modules) ELSE {},
                     IF Answered(c, F, 3) THEN CombineIdsIn(c.pa.modules) ELSE {})]

\* for input_id in ids: run_cmd('pactl', 'move-sink-input', input_id, target)
RECURSIVE MoveAll(_, _, _, _)
MoveAll(c, F, ids, target) ==
    IF ids = <<>> THEN c
    ELSE MoveAll(run_cmd(c, F, Cmd("move-sink-input", Head(ids), target)),
                 F, Tail(ids), target)

\* for input_id in list_movable_sink_inputs(): move it to target
MoveListed(lm, F, target) == MoveAll(lm.c, F, lm.ids, target)


---------------------------------------------------------------------------
(* Config (src/config.py).  device_delays and device_offsets are functions *)
(* from the sink names that have an entry.                                 *)

NoEntries == [n \in {} |-> 0]

Min(a, b) == IF a < b THEN a ELSE b
Max(a, b) == IF a > b THEN a ELSE b

DEFAULTS ==
    [default_analog_delay_ms |-> DEFAULT_ANALOG_DELAY,
     default_bt_delay_ms |-> DEFAULT_BT_DELAY,
     device_delays |-> NoEntries,
     device_offsets |-> NoEntries]

get_device_delay(cf, sink_name) ==
    IF sink_name \in DOMAIN cf.device_delays THEN cf.device_delays[sink_name]
    ELSE IF Contains(sink_name, "bluez_sink") \/ Contains(sink_name, "bluez_output")
    THEN cf.default_bt_delay_ms
    ELSE cf.default_analog_delay_ms

set_device_delay(cf, sink_name, delay_ms) ==
    [cf EXCEPT !.device_delays = (sink_name :> Max(1, Min(500, delay_ms))) @@ @]

set_default_analog_delay(cf, delay_ms) ==
    [cf EXCEPT !.default_analog_delay_ms = Max(1, Min(500, delay_ms))]

set_default_bt_delay(cf, delay_ms) ==
    [cf EXCEPT !.default_bt_delay_ms = Max(1, Min(500, delay_ms))]

\* the setter of the legacy property jack_delay
jack_delay_setter(cf, value) ==
    [cf EXCEPT !.default_analog_delay_ms = Max(0, Min(500, value))]

get_device_offset(cf, sink_name) ==
    IF sink_name \in DOMAIN cf.device_offsets THEN cf.device_offsets[sink_name] ELSE 0

set_device_offset(cf, sink_name, offset_ms) ==
    [cf EXCEPT !.device_offsets = (sink_name :> Max(-150, Min(150, offset_ms))) @@ @]

---------------------------------------------------------------------------
(* Topology parser and _refresh_state.                                     *)

OutputDevice(sink_name, device_type, is_synced, is_available) ==
    [sink_name |-> sink_name, device_type |-> device_type,
     is_synced |-> is_synced, is_available |-> is_available]

AudioState(pw) ==
    [combine_sink_exists |-> FALSE, combine_sink_module_id |-> 0,
     default_sink |-> NoSink, devices |-> <<>>, is_pipewire |-> pw]

RECURSIVE _detect_all_devices(_, _)
_detect_all_devices(sinks_output, sinks_short) ==
    IF sinks_output = <<>> THEN <<>>
    ELSE LET sink_name == Head(sinks_output)
             rest == _detect_all_devices(Tail(sinks_output), sinks_short)
             avail == sink_name \in SeqToSet(sinks_short)
         IN IF sink_name = virtual_sink THEN rest
            ELSE IF sink_name = EqSink \/ Contains(sink_name, "ladspa") THEN rest
            ELSE IF Contains(sink_name, "bluez_sink") \/ Contains(sink_name, "bluez_output")
            THEN <<OutputDevice(sink_name, "bluetooth", FALSE, avail)>> \o rest
            ELSE IF Contains(sink_name, "null") \/ Contains(sink_name, "auto_null")
                    \/ StartsWith(sink_name, "tunnel")
            THEN rest
            ELSE <<OutputDevice(sink_name, "analog", FALSE, avail)>> \o rest

\* the first module of that name whose argument line holds sink_name=<virtual_sink>
_find_module_id(mods, module_name) ==
    LET hits == {i \in 1..Len(mods) :
                    mods[i].name = module_name /\ IsPrefix(virtual_sink, mods[i].sink)}
    IN IF hits = {} THEN 0
       ELSE mods[CHOOSE i \in hits : \A j \in hits : i <= j].id

\* argument line holds sink=<sink_name> and source=<virtual_sink>.monitor
LoopbackMatches(m, sink_name) == m.name = Loopback /\ IsPrefix(sink_name, m.sink)

_find_all_loopbacks(mods, sink_name) ==
    SelectSeqBy(mods, {mods[i] : i \in {j \in 1..Len(mods) :
                                          LoopbackMatches(mods[j], sink_name)}})

MarkSynced(devices, names) ==
    [i \in 1..Len(devices) |->
        IF devices[i].sink_name \in names
        THEN [devices[i] EXCEPT !.is_synced = TRUE] ELSE devices[i]]

\* what _refresh_state builds from the outputs of its four queries
ParsedState(devices, default_sink, mods, pw) ==
    IF mods = <<>> \/ (pw /\ _find_module_id(mods, CombineSink) = 0)
    THEN [AudioState(pw) EXCEPT !.devices = devices, !.default_sink = default_sink]
    ELSE IF pw
    THEN [AudioState(pw) EXCEPT
            !.default_sink = default_sink,
            !.combine_sink_exists = TRUE,
            !.combine_sink_module_id = _find_module_id(mods, CombineSink),
            !.devices = MarkSynced(devices, SeqToSet(
                mods[CHOOSE i \in 1..Len(mods) :
                        mods[i].id = _find_module_id(mods, CombineSink)].slaves))]
    ELSE [AudioState(pw) EXCEPT
            !.default_sink = default_sink,
            !.combine_sink_exists = (_find_module_id(mods, NullSink) # 0),
            !.combine_sink_module_id = _find_module_id(mods, NullSink),
            !.devices = MarkSynced(devices,
                {devices[i].sink_name : i \in
                    {j \in 1..Len(devices) :
                        _find_all_loopbacks(mods, devices[j].sink_name) # <<>>}})]

\* _refresh_state: four queries (sinks, sinks short, info, modules); [c, st]
_refresh_state(c, F, pw) ==
    [c |-> Queried(c, 4),
     st |-> ParsedState(
              _detect_all_devices(IF Answered(c, F, 1) THEN ListSinks(c.pa) ELSE <<>>,
                                  IF Answered(c, F, 2) THEN ListSinks(c.pa) ELSE <<>>),
              IF Answered(c, F, 3) THEN c.pa.def ELSE NoSink,
              IF Answered(c, F, 4) THEN c.pa.modules ELSE <<>>,
              pw)]


---------------------------------------------------------------------------
(* Reconciliation passes.  A pass yields [c, st, ok, msg]: the context     *)
(* (graph and commands), the topology cache, and the (success, message)    *)
(* pair, the message being the list of its parts.                          *)

Msg(t, n, d) == [t |-> t, n |-> n, d |-> d]

Outcome(c, st, ok, msg) == [c |-> c, st |-> st, ok |-> ok, msg |-> msg]

RECURSIVE AvailableNames(_)
AvailableNames(devices) ==
    IF devices = <<>> THEN <<>>
    ELSE (IF Head(devices).is_available THEN <<Head(devices).sink_name>> ELSE <<>>)
         \o AvailableNames(Tail(devices))

\* 'eq_sink' in sinks, on the short listing
EqListed(sinks_short) ==
    \E i \in 1..Len(sinks_short) : Contains(sinks_short[i], "eq_sink")

_restore_eq_routing(c, F) ==
    IF Answered(c, F, 1) /\ EqListed(ListSinks(c.pa))
    THEN MoveListed(
            list_movable_sink_inputs(
                run_cmd(Queried(c, 1), F, Cmd("set-default-sink", EqSink, 0)), F),
            F, EqSink)
    ELSE Queried(c, 1)

\* move_streams_to_master that looks the target up and moves nothing
move_streams_to_master_None(c, F) == Queried(c, 1)

move_streams_to_master(c, F) ==
    MoveListed(list_movable_sink_inputs(Queried(c, 1), F), F,
               IF Answered(c, F, 1) /\ EqListed(ListSinks(c.pa))
               THEN EqSink ELSE virtual_sink)

\* the combine-sinks of ours that list slaves, in the module listing
SlaveBearing(mods) ==
    {i \in 1..Len(mods) :
        /\ mods[i].name = CombineSink
        /\ IsPrefix(virtual_sink, mods[i].sink)
        /\ mods[i].slaves # <<>>}

\* the slaves of the first combine-sink of ours that lists any (one query)
_get_combine_slaves(c, F) ==
    IF ~Answered(c, F, 1) \/ SlaveBearing(c.pa.modules) = {} THEN <<>>
    ELSE c.pa.modules[CHOOSE i \in SlaveBearing(c.pa.modules) :
                         \A j \in SlaveBearing(c.pa.modules) : i <= j].slaves

RECURSIVE UnloadAll(_, _, _)
UnloadAll(c, F, ms) ==
    IF ms = <<>> THEN c
    ELSE UnloadAll(run_cmd(c, F, Cmd("unload-module", Head(ms).id, 0)), F, Tail(ms))

\* the modules of the listing that bear our sink name
Ghosts(mods) ==
    SelectSeqBy(mods, {mods[i] : i \in {j \in 1..Len(mods) : BearsVirtualName(mods[j])}})

_cleanup_ghost_modules(c, F) ==
    UnloadAll(Queried(c, 1), F,
              IF Answered(c, F, 1) THEN Ghosts(c.pa.modules) ELSE <<>>)

RECURSIVE UnmuteAll(_, _, _)
UnmuteAll(c, F, names) ==
    IF names = <<>> THEN c
    ELSE UnmuteAll(run_cmd(c, F, Cmd("set-sink-mute", Head(names), 0)), F, Tail(names))

\* _setup_combine_sink_locked from the load of the combine-sink on
CombineLoaded(cl, F, st, device_sinks, messages) ==
    IF ~cl.r
    THEN Outcome(cl, st, FALSE, <<Msg("failed-combine", 0, NoSink)>>)
    ELSE Outcome(
            move_streams_to_master(
              _restore_eq_routing(
                UnmuteAll(
                  run_cmd(run_cmd(cl, F, Cmd("set-default-sink", virtual_sink, 0)),
                          F, Cmd("set-sink-mute", virtual_sink, 0)),
                  F, device_sinks),
                F),
              F),
            st, TRUE, Append(messages, Msg("synced", Len(device_sinks), NoSink)))

\* ... from the ghost cleanup on: c is the context the cleanup starts in
CombineBuild(c, F, st, device_sinks, messages) ==
    CombineLoaded(
        run_cmd(_cleanup_ghost_modules(c, F), F,
                Cmd("load-module", CombineSink,
                    [sink |-> virtual_sink, slaves |-> device_sinks, latency |-> 0])),
        F, st, device_sinks, messages)

\* CombineChecked without the comparison of the slaves with the devices:
\* an existing combine-sink is always rebuilt
CombineChecked_AlwaysRebuild(r, F, device_sinks) ==
    IF device_sinks = <<>>
    THEN Outcome(r.c, r.st, FALSE, <<Msg("no-devices", 0, NoSink)>>)
    ELSE IF ~r.st.combine_sink_exists
    THEN CombineBuild(r.c, F, r.st, device_sinks, <<>>)
    ELSE CombineBuild(
            IF r.st.combine_sink_module_id # 0
            THEN run_cmd(Queried(r.c, 1), F,
                         Cmd("unload-module", r.st.combine_sink_module_id, 0))
            ELSE Queried(r.c, 1),
            F, r.st, device_sinks, <<Msg("rebuilding", 0, NoSink)>>)

\* CombineChecked that takes any combine-sink there is for the right one
CombineChecked_KeepStale(r, F, device_sinks) ==
    IF device_sinks = <<>>
    THEN Outcome(r.c, r.st, FALSE, <<Msg("no-devices", 0, NoSink)>>)
    ELSE IF ~r.st.combine_sink_exists
    THEN CombineBuild(r.c, F, r.st, device_sinks, <<>>)
    ELSE Outcome(run_cmd(Queried(r.c, 1), F, Cmd("set-sink-mute", virtual_sink, 0)),
                 [r.st EXCEPT !.devices = MarkSynced(@, SeqToSet(device_sinks))],
                 TRUE, <<Msg("active", Len(device_sinks), NoSink)>>)

\* ... from the device check on: r is what _refresh_state gave
CombineChecked(r, F, device_sinks) ==
    IF device_sinks = <<>>
    THEN Outcome(r.c, r.st, FALSE, <<Msg("no-devices", 0, NoSink)>>)
    ELSE IF ~r.st.combine_sink_exists
    THEN CombineBuild(r.c, F, r.st, device_sinks, <<>>)
    ELSE IF SeqToSet(_get_combine_slaves(r.c, F)) = SeqToSet(device_sinks)
    THEN \* already correct: unmute, mark, report
         Outcome(run_cmd(Queried(r.c, 1), F, Cmd("set-sink-mute", virtual_sink, 0)),
                 [r.st EXCEPT !.devices = MarkSynced(@, SeqToSet(device_sinks))],
                 TRUE, <<Msg("active", Len(device_sinks), NoSink)>>)
    ELSE \* slaves changed: rebuild
         CombineBuild(
            IF r.st.combine_sink_module_id # 0
            THEN run_cmd(Queried(r.c, 1), F,
                         Cmd("unload-module", r.st.combine_sink_module_id, 0))
            ELSE Queried(r.c, 1),
            F, r.st, device_sinks, <<Msg("rebuilding", 0, NoSink)>>)

CombineRefreshed(r, F) == CombineChecked(r, F, AvailableNames(r.st.devices))

_setup_combine_sink_locked(c0, F, pw) == CombineRefreshed(_refresh_state(c0, F, pw), F)

\* AudioBackend.LOOPBACK_FLAGS
LOOPBACK_FLAGS == {"source_dont_move=true", "sink_dont_move=true", "adjust_time=0"}

\* f'{sink}.monitor'
MonitorOf(sink) == sink \o <<"monitor">>

\* the arguments of a load of module-loopback: source=<virtual_sink>.monitor,
\* sink=<sink_name>, latency_msec=<latency>, *LOOPBACK_FLAGS
LoopbackArgs(sink_name, latency) ==
    [sink |-> sink_name, slaves |-> <<>>, latency |-> latency,
     source |-> MonitorOf(virtual_sink), flags |-> LOOPBACK_FLAGS]

\* LinkCommands that loads the link and leaves mute and volume alone
LinkCommands_LoadOnly(c, F, sink_name, delay) ==
    run_cmd(c, F, Cmd("load-module", Loopback, LoopbackArgs(sink_name, delay)))

\* the commands for one unsynced device: unmute, full volume, load the link
LinkCommands(c, F, sink_name, delay) ==
    run_cmd(
      run_cmd(
        run_cmd(c, F, Cmd("set-sink-mute", sink_name, 0)),
        F, Cmd("set-sink-volume", sink_name, 100)),
      F, Cmd("load-module", Loopback, LoopbackArgs(sink_name, delay)))

\* the message for one unsynced device, c3 the context after its commands; [c, msg]
LinkDevice(c3, msg, device) ==
    [c |-> c3,
     msg |-> IF c3.r THEN Append(msg, Msg("synced-device", 0, device.sink_name)) ELSE msg]

\* step 3 of _setup_loopback_locked: a link for every unsynced device; [c, msg]
RECURSIVE LinkUnsynced(_, _, _, _)
LinkUnsynced(lk, F, cf, devices) ==
    IF devices = <<>> THEN lk
    ELSE IF ~Head(devices).is_available \/ Head(devices).is_synced
    THEN LinkUnsynced(lk, F, cf, Tail(devices))
    ELSE LinkUnsynced(
            LinkDevice(
                LinkCommands(lk.c, F, Head(devices).sink_name,
                             get_device_delay(cf, Head(devices).sink_name)),
                lk.msg, Head(devices)),
            F, cf, Tail(devices))

\* _setup_loopback_locked, the return: cx is the context after step 4
LoopbackReport(cx, st, messages) ==
    IF messages = <<>>
    THEN Outcome(cx, st, TRUE, <<Msg("active", Len(AvailableNames(st.devices)), NoSink)>>)
    ELSE Outcome(cx, st, TRUE, messages)

\* ... step 4: equalizer and streams
LoopbackRoute(lk, F, st) ==
    LoopbackReport(move_streams_to_master(_restore_eq_routing(lk.c, F), F), st, lk.msg)

\* LoopbackLink that links the first device only
LoopbackLink_FirstOnly(r3, F, cf, messages) ==
    LoopbackRoute(
        LinkUnsynced([c |-> Queried(r3.c, 1), msg |-> messages], F, cf,
                     IF r3.st.devices = <<>> THEN <<>> ELSE <<Head(r3.st.devices)>>),
        F, r3.st)

\* ... step 3: r3 is what the refresh before the links gave
LoopbackLink(r3, F, cf, messages) ==
    LoopbackRoute(
        LinkUnsynced([c |-> Queried(r3.c, 1), msg |-> messages], F, cf, r3.st.devices),
        F, r3.st)

\* LoopbackDefault that leaves the default output alone
LoopbackDefault_KeepDefault(r2, F, cf, pw, messages) ==
    LoopbackLink(
        _refresh_state(
            run_cmd(run_cmd(r2.c, F, Cmd("set-sink-volume", virtual_sink, 100)),
                    F, Cmd("set-sink-mute", virtual_sink, 0)),
            F, pw),
        F, cf, messages)

\* ... step 2: default, volume, mute; r2 is the cache the step reads
LoopbackDefault(r2, F, cf, pw, messages) ==
    LoopbackLink(
        _refresh_state(
            run_cmd(
              run_cmd(
                IF r2.st.default_sink # virtual_sink
                THEN run_cmd(r2.c, F, Cmd("set-default-sink", virtual_sink, 0))
                ELSE r2.c,
                F, Cmd("set-sink-volume", virtual_sink, 100)),
              F, Cmd("set-sink-mute", virtual_sink, 0)),
            F, pw),
        F, cf, messages)

\* ... step 1, the virtual sink was missing: cn is the context after its load
LoopbackCreated(cn, F, cf, pw, st) ==
    IF ~cn.r
    THEN Outcome(cn, st, FALSE, <<Msg("failed-virtual", 0, NoSink)>>)
    ELSE LoopbackDefault(_refresh_state(cn, F, pw), F, cf, pw,
                         <<Msg("created", 0, NoSink)>>)

\* LoopbackRefreshed that first unloads the links of devices no longer listed
LoopbackRefreshed_UnloadOrphans(r1, F, cf, pw) ==
    IF r1.st.combine_sink_exists
    THEN LoopbackDefault(
            [r1 EXCEPT !.c = UnloadAll(r1.c, F,
                SelectSeqBy(r1.c.pa.modules,
                    {r1.c.pa.modules[i] : i \in {j \in 1..Len(r1.c.pa.modules) :
                        /\ r1.c.pa.modules[j].name = Loopback
                        /\ r1.c.pa.modules[j].sink \notin
                              SeqToSet(AvailableNames(r1.st.devices))}}))],
            F, cf, pw, <<>>)
    ELSE LoopbackCreated(
            run_cmd(Queried(r1.c, 1), F,
                    Cmd("load-module", NullSink,
                        [sink |-> virtual_sink, slaves |-> <<>>, latency |-> 0])),
            F, cf, pw, r1.st)

\* ... step 1: create the virtual sink if missing (after the sample-spec query)
LoopbackRefreshed(r1, F, cf, pw) ==
    IF r1.st.combine_sink_exists
    THEN LoopbackDefault(r1, F, cf, pw, <<>>)
    ELSE LoopbackCreated(
            run_cmd(Queried(r1.c, 1), F,
                    Cmd("load-module", NullSink,
                        [sink |-> virtual_sink, slaves |-> <<>>, latency |-> 0])),
            F, cf, pw, r1.st)

_setup_loopback_locked(c0, F, cf, pw) ==
    LoopbackRefreshed(_refresh_state(c0, F, pw), F, cf, pw)

\* the body of setup_sync, under the lock
setup_sync_body(p, F, cf, pw) ==
    IF pw THEN _setup_combine_sink_locked(Ctx(p), F, pw)
    ELSE _setup_loopback_locked(Ctx(p), F, cf, pw)


---------------------------------------------------------------------------
(* The equalizer (src/debian/usr/lib/audiosync-master/equalizer.py), which *)
(* loads and unloads the eq_sink the engine looks for.                     *)

LadspaSink == "module-ladspa-sink"

\* its own stream enumerator: loopback owners, loopback drivers, two names
LegacyIsInfrastructure(x, loopback_modules) ==
    \/ x.owner # 0 /\ x.owner \in loopback_modules
    \/ x.driver # <<>> /\ Contains(x.driver, "module-loopback")
    \/ x.app \in {"module-loopback", "module-ladspa-sink"}
    \/ x.media # <<>> /\ Contains(x.media, "Loopback")

RECURSIVE LegacyMovableOf(_, _)
LegacyMovableOf(inputs, loopback_modules) ==
    IF inputs = <<>> THEN <<>>
    ELSE (IF LegacyIsInfrastructure(Head(inputs), loopback_modules)
          THEN <<>> ELSE <<Head(inputs).id>>)
         \o LegacyMovableOf(Tail(inputs), loopback_modules)

\* _move_streams_to of the equalizer: [c, ids] of its own enumerator, moved
EqMoveStreams(c, F, target) ==
    IF ~Answered(c, F, 1) \/ ListSinkInputs(c.pa) = <<>> THEN Queried(c, 1)
    ELSE MoveAll(Queried(c, 2), F,
                 LegacyMovableOf(ListSinkInputs(c.pa),
                     IF Answered(c, F, 2) THEN LoopbackIdsIn(c.pa.modules) ELSE {}),
                 target)

\* Equalizer.enable, after the load of the ladspa sink
EqLoaded(cl, F) ==
    IF cl.r
    THEN EqMoveStreams(run_cmd(Queried(cl, 1), F, Cmd("set-default-sink", EqSink, 0)),
                       F, EqSink)
    ELSE cl

equalizer_enable(c, F) ==
    IF Answered(c, F, 1) /\ c.pa.eq                    \* _find_eq_module
    THEN EqMoveStreams(run_cmd(Queried(c, 1), F, Cmd("set-default-sink", EqSink, 0)),
                       F, EqSink)
    ELSE EqLoaded(run_cmd(Queried(c, 1), F, Cmd("load-module", LadspaSink, 0)), F)

\* Equalizer.disable, after the streams are moved back
EqMovedBack(c2, F) ==
    IF Answered(c2, F, 1) /\ c2.pa.eq                  \* _find_eq_module
    THEN run_cmd(Queried(c2, 1), F, Cmd("unload-module", EqModuleId, 0))
    ELSE Queried(c2, 1)

equalizer_disable(c, F) ==
    EqMovedBack(
        EqMoveStreams(run_cmd(c, F, Cmd("set-default-sink", virtual_sink, 0)),
                      F, virtual_sink),
        F)


---------------------------------------------------------------------------
(* State, and what an operation leaves behind for the properties to read.  *)

Callers == {"monitor", "timer", "user"}

NoFail == {}

None == [op |-> "none"]

\* the module's id once ids are renumbered (0: gone)
Rank(p, id) ==
    IF id \in ModuleIds(p)
    THEN Cardinality({i \in 1..Len(p.modules) : p.modules[i].id <= id})
    ELSE 0

Cache(p, st) == [st EXCEPT !.combine_sink_module_id = Rank(p, @)]

EmptyGraph(server) ==
    [server |-> server, sinks |-> <<>>, eq |-> FALSE, def |-> NoSink,
     modules |-> <<>>, streams |-> <<>>, port |-> [s \in HwSinks |-> 0]]

\* __init__: no monitor thread, _monitor_running False.  threads holds the
\* listener threads that were started and have not ended, by their number.
NoMonitor == [running |-> FALSE, thread |-> 0, threads |-> <<>>]

\* no operation is part-way through its commands
NoJob == <<>>

\* A listener thread: where it is in _monitor_loop ("loop" at the while
\* test, "reading" in readline, "debounce" in the sleep before setup_sync,
\* "passing" inside setup_sync, "ended"), the lines pactl subscribe has written that it has not read, and
\* the line it is handling.  A line is [on, during]: the kind of object the
\* event is on, as the line prints it after "Event 'new' on " (sink,
\* sink-input, module, server, in tokens), and whether it was written
\* while the thread was handling an earlier one.
Line(on, during) == [on |-> on, during |-> during]

OnSinkEvent == <<"sink">>
OnSinkInputEvent == <<"sink", "-input">>
OnOtherEvent == <<"module">>

NoLine == Line(<<>>, FALSE)

Listener == [pc |-> "loop", pipe |-> <<>>, line |-> NoLine]

\* "'change' on sink" in line or "'new' on sink" in line or
\* "'remove' on sink" in line
OnSink(line) == StartsWith(line.on, "sink")

Alive(m) == {i \in 1..Len(m.threads) : m.threads[i].pc # "ended"}

\* the sinks of p that are not in q
SinksGone(p, q) == SeqToSet(ListSinks(p)) \ SeqToSet(ListSinks(q))

\* the lines pactl subscribe writes when the graph goes from p to q: one
\* sink line per sink that came or went; else one sink-input line when a
\* stream came, went or moved; else one line of another kind
Lines(p, q) ==
    IF SinksGone(p, q) \cup SinksGone(q, p) # {}
    THEN [n \in 1..Cardinality(SinksGone(p, q) \cup SinksGone(q, p)) |-> OnSinkEvent]
    ELSE IF ListSinkInputs(Compact(q)) # ListSinkInputs(p) THEN <<OnSinkInputEvent>>
    ELSE IF Compact(q) # p THEN <<OnOtherEvent>> ELSE <<>>

\* every subscriber's pipe takes the lines
Room(m, lines) ==
    \A i \in Alive(m) : Len(m.threads[i].pipe) + Len(lines) <= MaxPipe

Deliver(m, lines) ==
    [m EXCEPT !.threads =
        [i \in 1..Len(@) |->
            IF @[i].pc = "ended" THEN @[i]
            ELSE [@[i] EXCEPT !.pipe =
                    @ \o [n \in 1..Len(lines) |->
                            Line(lines[n], m.threads[i].pc \in {"debounce", "passing"})]]]]

\* the thread that was inside setup_sync is back at the while test
Returned(m) ==
    [m EXCEPT !.threads =
        [i \in 1..Len(@) |->
            IF @[i].pc = "passing"
            THEN [@[i] EXCEPT !.pc = "loop", !.line = NoLine]
            ELSE @[i]]]

\* the graph goes from pa to q while the monitor is m
Notified(m, q) ==
    /\ Room(m, Lines(pa, q))
    /\ mon' = Returned(Deliver(m, Lines(pa, q)))

\* AudioBackend._detect_pipewire: 'PipeWire' in the server name, False if the probe fails
_detect_pipewire(p, probe_ok) == probe_ok /\ p.server = "PipeWire"

\* the state right after AudioBackend() is constructed
Constructed(p, probe_ok) ==
    /\ pa = p
    /\ cfg = DEFAULTS
    /\ is_pipewire = _detect_pipewire(p, probe_ok)
    /\ state = AudioState(FALSE)
    /\ lock = ""
    /\ pc = [t \in Callers |-> "idle"]
    /\ last = None
    /\ hist = [fresh |-> FALSE, born |-> [server |-> p.server, probe_ok |-> probe_ok]]
    /\ mon = NoMonitor
    /\ job = NoJob

Init ==
    \E server \in {"PulseAudio", "PipeWire"} : Constructed(EmptyGraph(server), TRUE)

---------------------------------------------------------------------------
(* Engine operations, each the whole handler in one step.                  *)

\* Commit of a pass that probes the server again
Commit_Reprobe(out, F, m) ==
    /\ Len(out.c.pa.modules) <= MaxModules
    /\ Notified(m, out.c.pa)
    /\ pa' = Compact(out.c.pa)
    /\ state' = Cache(out.c.pa, out.st)
    /\ last' = [op |-> "setup_sync", pre |-> pa, ok |-> out.ok, msg |-> out.msg,
                log |-> out.c.log, F |-> F, second |-> hist.fresh]
    /\ hist' = [hist EXCEPT !.fresh = out.ok /\ \A i \in 1..Len(out.c.log) : out.c.log[i].ok]
    /\ is_pipewire' = _detect_pipewire(pa, TRUE)
    /\ UNCHANGED cfg

\* what a pass leaves: the graph, the cache, and its outcome
Commit(out, F, m) ==
    /\ Len(out.c.pa.modules) <= MaxModules
    /\ Notified(m, out.c.pa)
    /\ pa' = Compact(out.c.pa)
    /\ state' = Cache(out.c.pa, out.st)
    /\ last' = [op |-> "setup_sync", pre |-> pa, ok |-> out.ok, msg |-> out.msg,
                log |-> out.c.log, F |-> F, second |-> hist.fresh]
    /\ hist' = [hist EXCEPT !.fresh = out.ok /\ \A i \in 1..Len(out.c.log) : out.c.log[i].ok]
    /\ UNCHANGED <<cfg, is_pipewire>>

\* AudioBackend.setup_sync (one pass under the lock)
SetupSyncEffect(F, m) == Commit(setup_sync_body(pa, F, cfg, is_pipewire), F, m)

setup_sync ==
    /\ lock = ""
    /\ SetupSyncEffect(NoFail, mon)
    /\ UNCHANGED <<lock, pc, job>>

Observed(r) ==
    /\ state' = r.st
    /\ last' = [op |-> "get_state", pre |-> pa, ok |-> TRUE, msg |-> <<>>,
                log |-> r.c.log, F |-> NoFail, second |-> FALSE]

\* AudioBackend.get_state
get_state ==
    /\ lock = ""
    /\ Observed(_refresh_state(Ctx(pa), NoFail, is_pipewire))
    /\ hist' = [hist EXCEPT !.fresh = FALSE]
    /\ UNCHANGED <<pa, cfg, is_pipewire, lock, pc, mon, job>>

---------------------------------------------------------------------------
(* The environment: devices come and go, the user and the server change    *)
(* the default sink, applications play, the equalizer is switched.         *)

External(p) ==
    /\ pa' = Compact(p)
    /\ Notified(mon, p)
    /\ last' = None
    /\ hist' = [hist EXCEPT !.fresh = FALSE]
    /\ UNCHANGED <<cfg, is_pipewire, state, lock, pc, job>>

Plug(d) ==
    /\ d \notin HwSet(pa)
    /\ External(Settle([pa EXCEPT !.sinks = Append(@, d)]))

\* a link to the vanished sink either dies with it or stays behind
Unplug(d, links_stay) ==
    /\ d \in HwSet(pa)
    /\ LET keep == {i \in 1..Len(pa.modules) :
                       links_stay \/ ~(pa.modules[i].name = Loopback /\ pa.modules[i].sink = d)}
       IN External(Settle([pa EXCEPT
              !.sinks = SelectSeqBy(@, HwSet(pa) \ {d}),
              !.modules = SelectSeqBy(@, {@[i] : i \in keep})]))

DefaultChanged(s) ==
    /\ SinkExists(pa, s)
    /\ s # pa.def
    /\ External([pa EXCEPT !.def = s])

StreamStart(k) ==
    /\ Len(pa.streams) < MaxStreams
    /\ pa.def # NoSink
    /\ External([pa EXCEPT !.streams =
           Append(@, [owner |-> 0, app |-> k.app, media |-> k.media,
                      driver |-> k.driver, sink |-> pa.def])])

StreamStop(i) ==
    /\ i \in 1..Len(pa.streams)
    /\ External([pa EXCEPT !.streams = RemoveAt(@, i)])

EqualizerEnable ==
    /\ ~pa.eq
    /\ External(equalizer_enable(Ctx(pa), NoFail).pa)

EqualizerDisable ==
    /\ pa.eq
    /\ External(equalizer_disable(Ctx(pa), NoFail).pa)

Environment ==
    \/ \E d \in HwSinks : Plug(d)
    \/ \E d \in HwSinks, links_stay \in BOOLEAN : Unplug(d, links_stay)
    \/ \E s \in HwSinks \cup {virtual_sink, EqSink} : DefaultChanged(s)
    \/ \E k \in AppStreamKinds : StreamStart(k)
    \/ \E i \in 1..MaxStreams : StreamStop(i)
    \/ EqualizerEnable
    \/ EqualizerDisable

Next ==
    \/ setup_sync
    \/ get_state
    \/ Environment

Spec == Init /\ [][Next]_vars


---------------------------------------------------------------------------
(* Callers of setup_sync: the monitor thread, the periodic timer and the   *)
(* user each reach "with self._lock:", run the body holding the lock, and  *)
(* release it on return.                                                   *)

InBody == {"locked", "returning"}

\* a caller calls setup_sync and reaches the lock
Call(t) ==
    /\ pc[t] = "idle"
    /\ pc' = [pc EXCEPT ![t] = "waiting"]
    /\ UNCHANGED <<pa, cfg, is_pipewire, state, lock, last, hist, mon, job>>

\* Acquire that does not wait for the lock
Acquire_NoLock(t) ==
    /\ pc[t] = "waiting"
    /\ lock' = t
    /\ pc' = [pc EXCEPT ![t] = "locked"]
    /\ UNCHANGED <<pa, cfg, is_pipewire, state, last, hist, mon, job>>

\* with self._lock: entered once the lock is free
Acquire(t) ==
    /\ pc[t] = "waiting"
    /\ lock = ""
    /\ lock' = t
    /\ pc' = [pc EXCEPT ![t] = "locked"]
    /\ UNCHANGED <<pa, cfg, is_pipewire, state, last, hist, mon, job>>

\* the body of setup_sync, run by the holder of the lock
Body(t) ==
    /\ pc[t] = "locked"
    /\ SetupSyncEffect(NoFail, mon)
    /\ pc' = [pc EXCEPT ![t] = "returning"]
    /\ UNCHANGED <<lock, job>>

\* Release that leaves the lock taken
Release_KeepsLock(t) ==
    /\ pc[t] = "returning"
    /\ pc' = [pc EXCEPT ![t] = "idle"]
    /\ UNCHANGED <<pa, cfg, is_pipewire, state, lock, last, hist, mon, job>>

\* leaving the with block
Release(t) ==
    /\ pc[t] = "returning"
    /\ lock' = ""
    /\ pc' = [pc EXCEPT ![t] = "idle"]
    /\ UNCHANGED <<pa, cfg, is_pipewire, state, last, hist, mon, job>>

NextLock ==
    \/ \E t \in Callers : Call(t)
    \/ \E t \in Callers : Acquire(t)
    \/ \E t \in Callers : Body(t)
    \/ \E t \in Callers : Release(t)
    \/ \E d \in HwSinks : Plug(d)

SpecLock == Init /\ [][NextLock]_vars

---------------------------------------------------------------------------
(* The server is replaced while the engine runs (PulseAudio by PipeWire's  *)
(* PulseAudio server, or back): the modules and streams of the old server  *)
(* are gone, the hardware sinks are there again.                           *)

ServerReplaced(server) ==
    /\ server # pa.server
    /\ External(Settle([EmptyGraph(server) EXCEPT !.sinks = pa.sinks]))

InitStrategy ==
    \E server \in {"PulseAudio", "PipeWire"}, probe_ok \in BOOLEAN :
        Constructed(EmptyGraph(server), probe_ok)

NextStrategy ==
    \/ setup_sync
    \/ \E d \in HwSinks : Plug(d)
    \/ \E server \in {"PulseAudio", "PipeWire"} : ServerReplaced(server)

SpecStrategy == InitStrategy /\ [][NextStrategy]_vars

---------------------------------------------------------------------------
(* set_analog_offset: the user moves the offset slider of a device, or a   *)
(* caller passes any integer.                                              *)

\* the offsets tried: beyond both boundaries, the one that cancels the base
\* delay, none, and the upper boundary
Offsets == {-300, -121, 0, 150, 300}

\* set_analog_offset without its own clamp
ClampOffset_None(offset_ms) == offset_ms

\* offset_ms = max(-150, min(150, offset_ms))
ClampOffset(offset_ms) == Max(-150, Min(150, offset_ms))

\* _set_port_latency_offset, once the card is resolved: the command, in usec
PortOffsetSet(c, F, sink_name, delay_ms) ==
    [c |-> run_cmd(c, F, Cmd("set-port-latency-offset", sink_name, delay_ms * 1000))]

\* _set_port_latency_offset: [c]; a sink that is not listed, or has no port
\* and card (the virtual and equalizer sinks), gets no command
_set_port_latency_offset(c, F, sink_name, delay_ms) ==
    IF ~Answered(c, F, 1) \/ sink_name \notin HwSet(c.pa)
    THEN [c |-> Queried(c, 1)]
    ELSE IF ~Answered(c, F, 2)
    THEN [c |-> Queried(c, 2)]
    ELSE PortOffsetSet(Queried(c, 2), F, sink_name, delay_ms)

\* RecreateLoopback that leaves the old links loaded
RecreateLoopback_KeepsOld(r, F, sink_name, actual_ms) ==
    [c |-> run_cmd(Queried(r.c, 1), F,
                   Cmd("load-module", Loopback, LoopbackArgs(sink_name, actual_ms))),
     st |-> r.st]

\* the PulseAudio branch, under the lock: r is what _refresh_state gave;
\* every link of the sink is unloaded and one is loaded with the new latency
RecreateLoopback(r, F, sink_name, actual_ms) ==
    [c |-> run_cmd(
             UnloadAll(Queried(r.c, 1), F,
                       IF Answered(r.c, F, 1)
                       THEN _find_all_loopbacks(r.c.pa.modules, sink_name) ELSE <<>>),
             F, Cmd("load-module", Loopback, LoopbackArgs(sink_name, actual_ms))),
     st |-> r.st]

\* what set_analog_offset leaves on the PulseAudio branch
OffsetLinked(res, sink_name, offset_ms) ==
    /\ Len(res.c.pa.modules) <= MaxModules
    /\ pa' = Compact(res.c.pa)
    /\ state' = Cache(res.c.pa, res.st)
    /\ Notified(mon, res.c.pa)
    /\ last' = [op |-> "set_analog_offset", pre |-> pa, sink |-> sink_name,
                offset_ms |-> offset_ms, log |-> res.c.log]

\* what set_analog_offset leaves on the PipeWire branch
OffsetPorted(res, sink_name, offset_ms) ==
    /\ pa' = res.c.pa
    /\ state' = state
    /\ Notified(mon, res.c.pa)
    /\ last' = [op |-> "set_analog_offset", pre |-> pa, sink |-> sink_name,
                offset_ms |-> offset_ms, log |-> res.c.log]

\* OffsetClamped that recreates the link whatever the strategy flag says
OffsetClamped_AlwaysLink(sink_name, clamped, offset_ms) ==
    /\ cfg' = set_device_offset(cfg, sink_name, clamped)
    /\ OffsetLinked(
           RecreateLoopback(_refresh_state(Ctx(pa), NoFail, is_pipewire), NoFail,
                            sink_name, Max(1, DEFAULT_ANALOG_DELAY + clamped)),
           sink_name, offset_ms)

\* set_analog_offset with the offset already clamped
OffsetClamped(sink_name, clamped, offset_ms) ==
    /\ cfg' = set_device_offset(cfg, sink_name, clamped)
    /\ IF is_pipewire
       THEN OffsetPorted(
                _set_port_latency_offset(Ctx(pa), NoFail, sink_name,
                                         Max(0, DEFAULT_ANALOG_DELAY + clamped)),
                sink_name, offset_ms)
       ELSE OffsetLinked(
                RecreateLoopback(_refresh_state(Ctx(pa), NoFail, is_pipewire), NoFail,
                                 sink_name, Max(1, DEFAULT_ANALOG_DELAY + clamped)),
                sink_name, offset_ms)

\* AudioBackend.set_analog_offset
set_analog_offset(sink_name, offset_ms) ==
    /\ lock = ""
    /\ OffsetClamped(sink_name, ClampOffset(offset_ms), offset_ms)
    /\ hist' = [hist EXCEPT !.fresh = FALSE]
    /\ UNCHANGED <<is_pipewire, lock, pc, job>>

NextOffset ==
    \/ setup_sync
    \/ \E d \in HwSinks : Plug(d)
    \/ \E d \in HwSinks, offset_ms \in Offsets : set_analog_offset(d, offset_ms)

SpecOffset == Init /\ [][NextOffset]_vars

---------------------------------------------------------------------------
(* A device is unplugged and plugged in again after its offset was set:    *)
(* the link dies with the sink, and the next pass makes a new one.         *)

NextReplug ==
    \/ setup_sync
    \/ \E d \in HwSinks : Plug(d)
    \/ Unplug(Card1, FALSE)
    \/ \E offset_ms \in {-300, 150} : set_analog_offset(Card1, offset_ms)

SpecReplug == Init /\ [][NextReplug]_vars

---------------------------------------------------------------------------
(* The stream enumerator on its own: list_movable_sink_inputs is a module  *)
(* function, called on whatever the server lists.  The graphs it is tried  *)
(* on hold one stream with any owner, application name and media name and  *)
(* the driver that goes with its owner, next to the streams of the modules *)
(* themselves.                                                             *)

\* Owner Module: n/a (0), or the id of a module (a client's stream is owned
\* by the protocol module on PulseAudio)
StreamOwners == {0, 1, 2, 3}

\* Driver: a module's stream names the module's source file, a client's
\* the protocol's, or the line is missing
StreamDrivers(g, owner) ==
    IF \E i \in 1..Len(g.modules) : g.modules[i].id = owner /\ g.modules[i].name = Loopback
    THEN {<<"module-loopback", "c">>}
    ELSE IF \E i \in 1..Len(g.modules) :
                g.modules[i].id = owner /\ g.modules[i].name = CombineSink
    THEN {<<"module-combine-sink", "c">>}
    ELSE {<<>>, <<"protocol-native", "c">>}

StreamApps == {"", "Firefox", "module-loopback", "module-ladspa-sink", "module-combine-sink"}

StreamMedias ==
    {<<>>, <<"Playback">>, <<"Loopback", "Test", "Video">>, <<"Simultaneous", "Equations">>}

\* the modules of ours on a link-based and on a PipeWire server
LinkedGraph ==
    [EmptyGraph("PulseAudio") EXCEPT
        !.sinks = <<Card1>>, !.def = virtual_sink,
        !.modules = <<Module(1, NullSink, virtual_sink, <<>>, 0),
                      Module(2, Loopback, Card1, <<>>, DEFAULT_ANALOG_DELAY)>>]

CombinedGraph ==
    [EmptyGraph("PipeWire") EXCEPT
        !.sinks = <<Card1>>, !.def = virtual_sink,
        !.modules = <<Module(1, CombineSink, virtual_sink, <<Card1>>, 0)>>]

InitStreams ==
    \E g \in {LinkedGraph, CombinedGraph},
       owner \in StreamOwners, app \in StreamApps, media \in StreamMedias :
      \E driver \in StreamDrivers(g, owner) :
        Constructed([g EXCEPT !.streams =
                        <<[owner |-> owner, app |-> app, media |-> media,
                           driver |-> driver, sink |-> virtual_sink]>>],
                    TRUE)

Enumerated(lm, F) ==
    last' = [op |-> "list_movable_sink_inputs", pre |-> pa, F |-> F, ids |-> lm.ids]

\* a call of list_movable_sink_inputs(), the queries in F returning nothing
ListMovable(F) ==
    /\ Enumerated(list_movable_sink_inputs(Ctx(pa), F), F)
    /\ UNCHANGED <<pa, cfg, is_pipewire, state, lock, pc, hist, mon, job>>

NextStreams == \E F \in SUBSET (1..3) : ListMovable(F)

SpecStreams == InitStreams /\ [][NextStreams]_vars

---------------------------------------------------------------------------
(* Full teardown: cleanup() stops the monitor and, under the lock, unloads *)
(* the modules of ours and hands the default output and the streams back   *)
(* to a hardware sink.                                                     *)

\* the first listed sink whose name starts with one of the prefixes
FirstNamed(sinks, prefixes) ==
    IF \E i \in 1..Len(sinks) : \E t \in prefixes : StartsWith(sinks[i], t)
    THEN sinks[CHOOSE i \in 1..Len(sinks) :
                  /\ \E t \in prefixes : StartsWith(sinks[i], t)
                  /\ \A j \in 1..(i - 1) : \A t \in prefixes : ~StartsWith(sinks[j], t)]
    ELSE NoSink

\* the names that start with 'bluez_'
BluezPrefixed == {"bluez_sink", "bluez_output"}

\* FallbackAmong that looks for a Bluetooth sink first
FallbackAmong_BluetoothFirst(sinks) ==
    IF FirstNamed(sinks, BluezPrefixed) # NoSink
    THEN FirstNamed(sinks, BluezPrefixed)
    ELSE FirstNamed(sinks, {"alsa_output"})

\* analog first, then Bluetooth, among the sinks listed
FallbackAmong(sinks) ==
    IF FirstNamed(sinks, {"alsa_output"}) # NoSink
    THEN FirstNamed(sinks, {"alsa_output"})
    ELSE FirstNamed(sinks, BluezPrefixed)

\* _find_fallback_sink (one query): NoSink is None
_find_fallback_sink(c, F) ==
    IF Answered(c, F, 1) THEN FallbackAmong(ListSinks(c.pa)) ELSE NoSink

\* the loopbacks of the listing whose source is our monitor
OurLoopbacks(mods) ==
    SelectSeqBy(mods, {mods[i] : i \in {j \in 1..Len(mods) : mods[j].name = Loopback}})

\* _cleanup_locked, the end: default and streams to the fallback sink
CleanupRestore(c, F, fallback_sink) ==
    IF fallback_sink = NoSink THEN c
    ELSE MoveListed(
            list_movable_sink_inputs(
                run_cmd(c, F, Cmd("set-default-sink", fallback_sink, 0)), F),
            F, fallback_sink)

\* ... the unloads, both loops over the one module listing
CleanupUnload(c, F, mods, fallback_sink) ==
    CleanupRestore(UnloadAll(UnloadAll(c, F, OurLoopbacks(mods)), F, Ghosts(mods)),
                   F, fallback_sink)

\* _cleanup_locked: the fallback query, then the module listing
_cleanup_locked(c, F) ==
    CleanupUnload(Queried(c, 2), F,
                  IF Answered(c, F, 2) THEN c.pa.modules ELSE <<>>,
                  _find_fallback_sink(c, F))

\* stop_monitor, when the join returns: the flag is down, the handle dropped
\* (a listener that has not left its loop by then stays in threads)
stop_monitor(m) == [m EXCEPT !.running = FALSE, !.thread = 0]

\* the monitor stopped and the graph as the teardown left it; the topology
\* cache is not refreshed
TornDown(c) ==
    /\ pa' = Compact(c.pa)
    /\ state' = Cache(c.pa, state)
    /\ Notified(stop_monitor(mon), c.pa)

\* what cleanup leaves
Cleaned(c, F) ==
    /\ TornDown(c)
    /\ last' = [op |-> "cleanup", pre |-> pa, log |-> c.log, F |-> F]

\* AudioBackend.cleanup
cleanup ==
    /\ lock = ""
    /\ Cleaned(_cleanup_locked(Ctx(pa), NoFail), NoFail)
    /\ hist' = [hist EXCEPT !.fresh = FALSE]
    /\ UNCHANGED <<cfg, is_pipewire, lock, pc, job>>

NextCleanup ==
    \/ setup_sync
    \/ cleanup
    \/ \E d \in HwSinks : Plug(d)
    \/ \E d \in HwSinks, links_stay \in BOOLEAN : Unplug(d, links_stay)
    \/ \E k \in AppStreamKinds : StreamStart(k)
    \/ EqualizerEnable

SpecCleanup == Init /\ [][NextCleanup]_vars

---------------------------------------------------------------------------
(* The public operations side by side.  setup_sync is entered through the  *)
(* lock step by step (Call, Acquire, Body, Release); the operations that   *)
(* issue commands outside "with self._lock" issue them one step at a time, *)
(* job holding the commands still to come, so that whatever another thread *)
(* does in between is seen.                                                *)

\* the commands an operation issued, as they were issued
Commands(log) == [i \in 1..Len(log) |-> Cmd(log[i].c, log[i].a, log[i].b)]

\* an operation reaches commands it issues without the lock
Started(t, op, todo) ==
    /\ job' = IF todo = <<>> THEN NoJob ELSE [by |-> t, op |-> op, todo |-> todo]
    /\ pc' = [pc EXCEPT ![t] = IF todo = <<>> THEN "idle" ELSE "issuing"]

\* AudioBackend.move_streams_to_master called as a public operation: the
\* target and the streams are looked up, the moves follow
MoveBegin(t) ==
    /\ pc[t] = "idle" /\ job = NoJob
    /\ Started(t, "move_streams_to_master",
               Commands(move_streams_to_master(Ctx(pa), NoFail).log))
    /\ last' = None
    /\ UNCHANGED <<pa, cfg, is_pipewire, state, lock, hist, mon>>

\* AudioBackend.set_analog_offset: the offset is stored; on PipeWire the
\* port command follows, without the lock; on PulseAudio the link is
\* recreated under the lock
OffsetBegin(t, sink_name, offset_ms) ==
    /\ pc[t] = "idle" /\ job = NoJob
    /\ cfg' = set_device_offset(cfg, sink_name, ClampOffset(offset_ms))
    /\ hist' = [hist EXCEPT !.fresh = FALSE]
    /\ IF is_pipewire
       THEN /\ Started(t, "set_analog_offset",
                       Commands(_set_port_latency_offset(
                           Ctx(pa), NoFail, sink_name,
                           Max(0, DEFAULT_ANALOG_DELAY + ClampOffset(offset_ms))).c.log))
            /\ last' = None
            /\ UNCHANGED <<pa, state, mon>>
       ELSE /\ lock = ""
            /\ OffsetLinked(
                   RecreateLoopback(_refresh_state(Ctx(pa), NoFail, is_pipewire), NoFail,
                                    sink_name,
                                    Max(1, DEFAULT_ANALOG_DELAY + ClampOffset(offset_ms))),
                   sink_name, offset_ms)
            /\ UNCHANGED <<pc, job>>
    /\ UNCHANGED <<is_pipewire, lock>>

\* AudioBackend.factory_reset, up to the end of "with self._lock": the
\* monitor is stopped and the modules are cleaned up under the lock; the
\* restart of the services follows once the lock is released
FactoryResetBegin(t) ==
    /\ pc[t] = "idle" /\ job = NoJob
    /\ lock = ""
    /\ Cleaned(_cleanup_locked(Ctx(pa), NoFail), NoFail)
    /\ Started(t, "factory_reset", <<Cmd("restart-services", 0, 0)>>)
    /\ hist' = [hist EXCEPT !.fresh = FALSE]
    /\ UNCHANGED <<cfg, is_pipewire, lock>>

\* what one command of the operation leaves
Issued1(c, t) ==
    /\ pa' = Compact(c.pa)
    /\ state' = Cache(c.pa, state)
    /\ Notified(mon, c.pa)
    /\ last' = [op |-> "command", of |-> job.op, by |-> t, pre |-> pa, log |-> c.log]

\* the next command of the operation that is part-way through
JobStep(t) ==
    /\ job # NoJob
    /\ job.by = t
    /\ Issued1(run_cmd(Ctx(pa), NoFail, Head(job.todo)), t)
    /\ Started(t, job.op, Tail(job.todo))
    /\ hist' = [hist EXCEPT !.fresh = FALSE]
    /\ UNCHANGED <<cfg, is_pipewire, lock>>

\* the monitor thread reconciles, the user's thread runs the other operations
NextOps ==
    \/ Call("monitor")
    \/ Acquire("monitor")
    \/ Body("monitor")
    \/ Release("monitor")
    \/ MoveBegin("user")
    \/ \E d \in HwSinks : OffsetBegin("user", d, 150)
    \/ FactoryResetBegin("user")
    \/ JobStep("user")
    \/ get_state
    \/ \E d \in HwSinks : Plug(d)
    \/ \E k \in AppStreamKinds : StreamStart(k)

SpecOps == Init /\ [][NextOps]_vars

---------------------------------------------------------------------------
(* The device monitor: start_monitor starts a listener thread that reads   *)
(* the lines of pactl subscribe and reconciles on every sink line;         *)
(* stop_monitor lowers the flag and joins the thread for two seconds.      *)

\* AudioBackend.start_monitor, called by the user's thread
start_monitor ==
    /\ pc["user"] = "idle"
    /\ IF mon.running
       THEN UNCHANGED mon
       ELSE /\ Len(mon.threads) < MaxThreads
            /\ mon' = [running |-> TRUE, thread |-> Len(mon.threads) + 1,
                       threads |-> Append(mon.threads, Listener)]
    /\ UNCHANGED <<pa, cfg, is_pipewire, state, lock, pc, last, hist, job>>

\* stop_monitor, called by the user's thread on its own or as the first
\* statement of cleanup: the flag is lowered, the join is entered
StopFlag(op) ==
    /\ pc["user"] = "idle"
    /\ mon' = [mon EXCEPT !.running = FALSE]
    /\ pc' = [pc EXCEPT !["user"] = IF op = "cleanup" THEN "joining_cleanup" ELSE "joining"]
    /\ UNCHANGED <<pa, cfg, is_pipewire, state, lock, last, hist, job>>

\* self._monitor_thread.join(timeout=2) is over: there was no thread, or it
\* has ended, or the two seconds ran out on a thread that waits in readline
JoinOver(m) ==
    IF m.thread = 0 THEN TRUE
    ELSE IF m.threads[m.thread].pc = "ended" THEN TRUE
    ELSE m.threads[m.thread].pc = "reading" /\ m.threads[m.thread].pipe = <<>>

\* stop_monitor returns
JoinReturns ==
    /\ pc["user"] = "joining"
    /\ JoinOver(mon)
    /\ mon' = stop_monitor(mon)
    /\ pc' = [pc EXCEPT !["user"] = "idle"]
    /\ UNCHANGED <<pa, cfg, is_pipewire, state, lock, last, hist, job>>

\* cleanup, from the return of its stop_monitor on
CleanupJoined ==
    /\ pc["user"] = "joining_cleanup"
    /\ JoinOver(mon)
    /\ lock = ""
    /\ Cleaned(_cleanup_locked(Ctx(pa), NoFail), NoFail)
    /\ pc' = [pc EXCEPT !["user"] = "idle"]
    /\ hist' = [hist EXCEPT !.fresh = FALSE]
    /\ UNCHANGED <<cfg, is_pipewire, lock, job>>

\* while self._monitor_running and proc.poll() is None
LoopTop(i) ==
    /\ i \in 1..Len(mon.threads)
    /\ mon.threads[i].pc = "loop"
    /\ mon' = [mon EXCEPT !.threads[i].pc = IF mon.running THEN "reading" ELSE "ended"]
    /\ UNCHANGED <<pa, cfg, is_pipewire, state, lock, pc, last, hist, job>>

\* ReadLine that leaves the line it read in the pipe
ReadLine_KeepsLine(i) ==
    /\ i \in 1..Len(mon.threads)
    /\ mon.threads[i].pc = "reading"
    /\ mon.threads[i].pipe # <<>>
    /\ mon' = [mon EXCEPT
                 !.threads[i].line = Head(mon.threads[i].pipe),
                 !.threads[i].pc = IF OnSink(Head(mon.threads[i].pipe))
                                   THEN "debounce" ELSE "loop"]
    /\ UNCHANGED <<pa, cfg, is_pipewire, state, lock, pc, last, hist, job>>

\* line = proc.stdout.readline(), which waits for a line; a line that holds
\* one of the three sink texts is followed by the sleep, any other by the
\* while test
ReadLine(i) ==
    /\ i \in 1..Len(mon.threads)
    /\ mon.threads[i].pc = "reading"
    /\ mon.threads[i].pipe # <<>>
    /\ mon' = [mon EXCEPT
                 !.threads[i].line = Head(mon.threads[i].pipe),
                 !.threads[i].pipe = Tail(@),
                 !.threads[i].pc = IF OnSink(Head(mon.threads[i].pipe))
                                   THEN "debounce" ELSE "loop"]
    /\ UNCHANGED <<pa, cfg, is_pipewire, state, lock, pc, last, hist, job>>

\* time.sleep(0.5) is over: self.setup_sync(), then the callback
MonitorPass(i) ==
    /\ i \in 1..Len(mon.threads)
    /\ mon.threads[i].pc = "debounce"
    /\ lock = ""
    /\ SetupSyncEffect(NoFail, [mon EXCEPT !.threads[i].pc = "passing"])
    /\ UNCHANGED <<lock, pc, job>>

NextMonitor ==
    \/ start_monitor
    \/ \E op \in {"stop_monitor", "cleanup"} : StopFlag(op)
    \/ JoinReturns
    \/ CleanupJoined
    \/ \E i \in 1..MaxThreads : LoopTop(i)
    \/ \E i \in 1..MaxThreads : ReadLine(i)
    \/ \E i \in 1..MaxThreads : MonitorPass(i)
    \/ Plug(Card1)
    \/ Unplug(Card1, FALSE)

SpecMonitor == Init /\ [][NextMonitor]_vars

---------------------------------------------------------------------------
(* factory_reset as one operation of the user's thread, next to the passes *)
(* of the timer and of the monitor.  The commands that restart the audio   *)
(* services are run by subprocess.run with a timeout: they finish, or are  *)
(* not installed, or run past the timeout (having restarted the services   *)
(* or not).                                                                *)

RestartOutcomes == {"finished", "missing", "timeout"}

\* the steps factory_reset has taken when it returns or raises
ResetSteps(outcome) ==
    IF outcome = "timeout"
    THEN <<"stop_monitor", "teardown", "clear_state", "restart">>
    ELSE <<"stop_monitor", "teardown", "clear_state", "restart", "wait", "return">>

\* factory_reset from the teardown on: c is the context _cleanup_locked
\* left; subprocess.TimeoutExpired is not caught, FileNotFoundError is
FactoryReset(c, outcome, restarted) ==
    /\ TornDown(IF restarted THEN run_cmd(c, NoFail, Cmd("restart-services", 0, 0)) ELSE c)
    /\ last' = [op |-> "factory_reset", pre |-> pa,
                log |-> (IF restarted
                         THEN run_cmd(c, NoFail, Cmd("restart-services", 0, 0)) ELSE c).log,
                steps |-> ResetSteps(outcome),
                monitor_running |-> stop_monitor(mon).running,
                raised |-> (outcome = "timeout"), ok |-> (outcome # "timeout")]

\* AudioBackend.factory_reset
factory_reset(outcome, restarted) ==
    /\ lock = ""
    /\ outcome = "finished" => restarted
    /\ outcome = "missing" => ~restarted
    /\ FactoryReset(_cleanup_locked(Ctx(pa), NoFail), outcome, restarted)
    /\ hist' = [hist EXCEPT !.fresh = FALSE]
    /\ UNCHANGED <<cfg, is_pipewire, lock, pc, job>>

NextReset ==
    \/ setup_sync
    \/ cleanup
    \/ \E outcome \in RestartOutcomes, restarted \in BOOLEAN : factory_reset(outcome, restarted)
    \/ start_monitor
    \/ LoopTop(1)
    \/ ReadLine(1)
    \/ MonitorPass(1)
    \/ Plug(Card1)

SpecReset == Init /\ [][NextReset]_vars

---------------------------------------------------------------------------
(* Exceptions inside the listener's handling of a sink line.  run_cmd      *)
(* catches three exceptions of subprocess.run; any other (an OSError, a    *)
(* decoding error) leaves the pass at the call that raised it, the         *)
(* commands before it carried out.  The callback is the caller's code and  *)
(* raises what it likes.  Both are inside "try: ... except Exception:      *)
(* pass" of _monitor_loop.                                                 *)

\* the graph after the first n commands of a pass were carried out
RECURSIVE CarriedOut(_, _, _)
CarriedOut(p, log, n) ==
    IF n = 0 THEN p
    ELSE LET q == CarriedOut(p, log, n - 1)
         IN IF log[n].ok THEN Exec(q, Cmd(log[n].c, log[n].a, log[n].b)) ELSE q

\* Swallowed that lets the exception end the thread
Swallowed_Propagates(m, i) == [m EXCEPT !.threads[i].pc = "ended"]

\* except Exception: pass -- the thread goes on to the while test
Swallowed(m, i) ==
    [m EXCEPT !.threads[i].pc = "loop", !.threads[i].line = NoLine]

\* what the handling of a line leaves when it raised: the graph p the
\* commands left, the cache st of the last _refresh_state that returned
Raised(i, p, st, where) ==
    /\ Len(p.modules) <= MaxModules
    /\ Room(mon, Lines(pa, p))
    /\ mon' = Swallowed(Deliver([mon EXCEPT !.threads[i].pc = "passing"], Lines(pa, p)), i)
    /\ pa' = Compact(p)
    /\ state' = Cache(p, st)
    /\ last' = [op |-> "raised", by |-> i, where |-> where, pre |-> pa]
    /\ hist' = [hist EXCEPT !.fresh = FALSE]
    /\ UNCHANGED <<cfg, is_pipewire, lock, pc, job>>

\* the pass out raises once n of its commands are done: before its first
\* command the cache is the old one or that of the opening _refresh_state
PassRaised(i, out, opening, n) ==
    /\ n \in 0..Len(out.c.log)
    /\ \E st \in (IF n = 0 THEN {state, opening} ELSE {opening}) :
           Raised(i, CarriedOut(pa, out.c.log, n), st, "pass")

\* self.setup_sync() raises
MonitorPassRaises(i, n) ==
    /\ i \in 1..Len(mon.threads)
    /\ mon.threads[i].pc = "debounce"
    /\ lock = ""
    /\ PassRaised(i, setup_sync_body(pa, NoFail, cfg, is_pipewire),
                  _refresh_state(Ctx(pa), NoFail, is_pipewire).st, n)

\* self.setup_sync() returns and self._on_device_change_callback() raises
CallbackRaises(i) ==
    /\ i \in 1..Len(mon.threads)
    /\ mon.threads[i].pc = "debounce"
    /\ lock = ""
    /\ LET out == setup_sync_body(pa, NoFail, cfg, is_pipewire)
       IN Raised(i, out.c.pa, out.st, "callback")

NextRaise ==
    \/ start_monitor
    \/ StopFlag("stop_monitor")
    \/ JoinReturns
    \/ LoopTop(1)
    \/ ReadLine(1)
    \/ MonitorPass(1)
    \/ \E n \in 0..MaxCall : MonitorPassRaises(1, n)
    \/ CallbackRaises(1)
    \/ Plug(Card1)

SpecRaise == Init /\ [][NextRaise]_vars

---------------------------------------------------------------------------

(* The equalizer switched off and its bands re-applied, next to the        *)
(* engine: both unload the module of eq_sink, after the default output and *)
(* the streams were sent back to the virtual sink.  Applications play      *)
(* whatever their media is called.                                         *)

\* a browser, and a player whose track is called "Loopback"
PlayerKinds ==
    AppStreamKinds \cup
    {[app |-> "Rhythmbox", media |-> <<"Loopback", "Artist">>,
      driver |-> <<"protocol-native", "c">>]}

\* Equalizer.disable up to _find_eq_module
DisableRouted(c, F) ==
    EqMoveStreams(run_cmd(c, F, Cmd("set-default-sink", virtual_sink, 0)), F, virtual_sink)

\* Equalizer._apply_bands up to _find_eq_module
BandsRouted(c, F) ==
    run_cmd(EqMoveStreams(c, F, virtual_sink), F, Cmd("set-default-sink", virtual_sink, 0))

\* Equalizer._apply_bands from _find_eq_module on: the module is unloaded
\* and loaded again with the new controls, the routing restored
BandsReloaded(c2, F) ==
    EqLoaded(run_cmd(EqMovedBack(c2, F), F, Cmd("load-module", LadspaSink, 0)), F)

equalizer_apply_bands(c, F) == BandsReloaded(BandsRouted(c, F), F)

\* what an operation of the equalizer leaves: c2 is the context at the
\* moment of _find_eq_module, c the one at its return
EqReturned(op, c2, c) ==
    /\ pa' = Compact(c.pa)
    /\ Notified(mon, c.pa)
    /\ last' = [op |-> op, pre |-> pa, log |-> c.log,
                at_unload |-> c2.pa, unloaded |-> c2.pa.eq]
    /\ hist' = [hist EXCEPT !.fresh = FALSE]
    /\ UNCHANGED <<cfg, is_pipewire, state, lock, pc, job>>

\* Equalizer.disable
EqDisable ==
    /\ pa.eq
    /\ EqReturned("equalizer_disable", DisableRouted(Ctx(pa), NoFail),
                  EqMovedBack(DisableRouted(Ctx(pa), NoFail), NoFail))

\* Equalizer.set_band / set_bands / apply_preset with the equalizer enabled
EqApplyBands ==
    /\ pa.eq
    /\ EqReturned("equalizer_apply_bands", BandsRouted(Ctx(pa), NoFail),
                  BandsReloaded(BandsRouted(Ctx(pa), NoFail), NoFail))

NextEq ==
    \/ setup_sync
    \/ cleanup
    \/ EqualizerEnable
    \/ EqDisable
    \/ EqApplyBands
    \/ \E k \in PlayerKinds : StreamStart(k)
    \/ \E d \in HwSinks : Plug(d)

SpecEq == Init /\ [][NextEq]_vars

---------------------------------------------------------------------------

(* The device panel (src/debian/usr/lib/audiosync-master/ui/delay_panel.py) *)
(* on the GTK main thread: its three buttons, its five-second timer, and    *)
(* the refresh of the device list that each of them ends with.              *)

\* state.unsynced_devices
unsynced_devices(st) ==
    {i \in 1..Len(st.devices) : ~st.devices[i].is_synced /\ st.devices[i].is_available}

\* the auto-repair test of _refresh_device_list on what get_state returned
needs_repair(st) == ~st.combine_sink_exists \/ unsynced_devices(st) # {}

\* _refresh_device_list once get_state returned st: c is the context the
\* repairing setup_sync leaves; [c, st, repaired]
ListRefreshed(p, st, c, pw) ==
    IF needs_repair(st)
    THEN [c |-> c, st |-> _refresh_state(Ctx(c.pa), NoFail, pw).st, repaired |-> TRUE]
    ELSE [c |-> Ctx(p), st |-> st, repaired |-> FALSE]

\* _refresh_device_list from graph p on: get_state, and when repair is
\* needed setup_sync and get_state again
_refresh_device_list(p, cf, pw) ==
    ListRefreshed(p, _refresh_state(Ctx(p), NoFail, pw).st,
                  setup_sync_body(p, NoFail, cf, pw).c, pw)

\* cleanup was clicked and Resync All has not been clicked since
Removed == last.op \in {"_on_cleanup", "_periodic_refresh"} /\ last.removed

\* what a handler of the panel leaves: m is the monitor as the handler's
\* audio call left it, rf what its _refresh_device_list did
Handled(op, m, rf, removed) ==
    /\ Len(rf.c.pa.modules) <= MaxModules
    /\ Notified(m, rf.c.pa)
    /\ pa' = Compact(rf.c.pa)
    /\ state' = Cache(rf.c.pa, rf.st)
    /\ last' = [op |-> op, pre |-> pa, log |-> rf.c.log,
                repaired |-> rf.repaired, removed |-> removed]
    /\ hist' = [hist EXCEPT !.fresh = FALSE]
    /\ UNCHANGED <<cfg, is_pipewire, lock, pc, job>>

\* DelayPanel._on_resync: audio.setup_sync(), self._refresh_device_list()
_on_resync ==
    /\ lock = ""
    /\ Handled("_on_resync", mon,
               _refresh_device_list(setup_sync_body(pa, NoFail, cfg, is_pipewire).c.pa,
                                    cfg, is_pipewire),
               FALSE)

\* DelayPanel._on_cleanup: audio.cleanup(), self._refresh_device_list()
_on_cleanup ==
    /\ lock = ""
    /\ Handled("_on_cleanup", stop_monitor(mon),
               _refresh_device_list(_cleanup_locked(Ctx(pa), NoFail).pa, cfg, is_pipewire),
               TRUE)

\* DelayPanel._periodic_refresh, every five seconds
_periodic_refresh ==
    /\ lock = ""
    /\ Handled("_periodic_refresh", mon, _refresh_device_list(pa, cfg, is_pipewire),
               Removed)

NextUi ==
    \/ _on_resync
    \/ _on_cleanup
    \/ _periodic_refresh
    \/ start_monitor
    \/ LoopTop(1)
    \/ ReadLine(1)
    \/ MonitorPass(1)
    \/ Plug(Card1)

SpecUi == Init /\ [][NextUi]_vars

---------------------------------------------------------------------------

(* The feed of pactl subscribe with applications playing: next to the sink *)
(* lines it carries the lines of the streams that start, stop and are      *)
(* moved.                                                                   *)

NextFeed ==
    \/ start_monitor
    \/ LoopTop(1)
    \/ ReadLine(1)
    \/ MonitorPass(1)
    \/ Plug(Card1)
    \/ \E k \in AppStreamKinds : StreamStart(k)
    \/ \E i \in 1..MaxStreams : StreamStop(i)

SpecFeed == Init /\ [][NextFeed]_vars

---------------------------------------------------------------------------

(* Every thread that takes the lock, side by side: the timer's, the        *)
(* user's and the listener's setup_sync step by step (reaching the lock,   *)
(* holding it, releasing it), and cleanup with its stop_monitor and join.  *)
(* The monitor is started once and stopped while it runs.  A thread that   *)
(* can run does run; the body of a with block has no wait in it (every     *)
(* command is run with a timeout), so its holder reaches the end of the    *)
(* block; a thread waiting for the lock gets it when the lock is free      *)
(* again and again (the timer comes every five seconds, the listener       *)
(* after half a second's sleep).                                           *)

\* the listener's sleep is over: it calls self.setup_sync() and reaches the
\* lock
MonitorCall(i) ==
    /\ i \in 1..Len(mon.threads)
    /\ mon.threads[i].pc = "debounce"
    /\ pc["monitor"] = "idle"
    /\ mon' = [mon EXCEPT !.threads[i].pc = "passing"]
    /\ pc' = [pc EXCEPT !["monitor"] = "waiting"]
    /\ UNCHANGED <<pa, cfg, is_pipewire, state, lock, last, hist, job>>

StartOnce == mon.threads = <<>> /\ start_monitor

StopRunning(op) == mon.running /\ StopFlag(op)

\* the holder of the lock gets to the end of the with block
Runs(t) == pc[t] = "locked" /\ pc' = [pc EXCEPT ![t] = "returning"]

\* cleanup gets from its join to its return
CleanupRuns ==
    /\ pc["user"] = "joining_cleanup"
    /\ JoinOver(mon)
    /\ lock = ""
    /\ pc' = [pc EXCEPT !["user"] = "idle"]

NextLive ==
    \/ \E t \in {"timer", "user"} : Call(t)
    \/ \E t \in Callers : Acquire(t)
    \/ \E t \in Callers : Body(t)
    \/ \E t \in Callers : Release(t)
    \/ StartOnce
    \/ \E op \in {"stop_monitor", "cleanup"} : StopRunning(op)
    \/ JoinReturns
    \/ CleanupJoined
    \/ LoopTop(1)
    \/ ReadLine(1)
    \/ MonitorCall(1)

Fairness ==
    /\ \A t \in Callers :
          SF_vars(Acquire(t)) /\ WF_pc(Runs(t)) /\ WF_vars(Release(t))
    /\ WF_vars(JoinReturns)
    /\ SF_pc(CleanupRuns)
    /\ WF_vars(LoopTop(1))
    /\ WF_vars(ReadLine(1))
    /\ SF_vars(MonitorCall(1))

SpecLive == Init /\ [][NextLive]_vars /\ Fairness

---------------------------------------------------------------------------
(* Links under interleaved callers: the monitor, the timer and the user    *)
(* call setup_sync, the user moves an offset slider, and two cards whose   *)
(* names differ by a suffix come and go.                                   *)

TwinSinks == {Card1, Card1Twin}

NextLinks ==
    \/ \E t \in Callers : Call(t)
    \/ \E t \in Callers : Acquire(t)
    \/ \E t \in Callers : Body(t)
    \/ \E t \in Callers : Release(t)
    \/ \E d \in TwinSinks, offset_ms \in {-300, 150} : set_analog_offset(d, offset_ms)
    \/ \E d \in TwinSinks : Plug(d)
    \/ \E d \in TwinSinks : Unplug(d, FALSE)

SpecLinks == Init /\ [][NextLinks]_vars

---------------------------------------------------------------------------
(* The listener alone with the server: devices and streams come and go    *)
(* and the equalizer is switched on, each change while no line is waiting  *)
(* in the pipe, and the listener's passes write lines of their own.        *)

\* the listener has read every line that was written
PipeDrained == mon.threads # <<>> /\ mon.threads[1].pipe = <<>>

DevicePlugged(d) == PipeDrained /\ Plug(d)

DeviceUnplugged(d) == PipeDrained /\ Unplug(d, FALSE)

PlayerStarted(k) == PipeDrained /\ StreamStart(k)

EqualizerSwitchedOn == PipeDrained /\ EqualizerEnable

NextQuiesce ==
    \/ StartOnce
    \/ LoopTop(1)
    \/ ReadLine(1)
    \/ MonitorCall(1)
    \/ Acquire("monitor")
    \/ Body("monitor")
    \/ Release("monitor")
    \/ \E d \in HwSinks : DevicePlugged(d)
    \/ \E d \in HwSinks : DeviceUnplugged(d)
    \/ \E k \in AppStreamKinds : PlayerStarted(k)
    \/ EqualizerSwitchedOn

\* the listener's thread runs, and so does the pass it is in
ListenerRuns ==
    /\ WF_vars(LoopTop(1))
    /\ WF_vars(ReadLine(1))
    /\ WF_vars(MonitorCall(1))
    /\ WF_vars(Acquire("monitor"))
    /\ WF_pc(Runs("monitor"))
    /\ WF_vars(Release("monitor"))

SpecQuiesce == Init /\ [][NextQuiesce]_vars /\ ListenerRuns

---------------------------------------------------------------------------

(* run_cmd on its own (src/audio_backend.py:39-59): what it returns for    *)
(* whatever the child process does.  A process either cannot be started    *)
(* (no executable), or runs past the five seconds, or exits with a code,   *)
(* having written some text to its standard output.                        *)

Exited(code, stdout) == [kind |-> "exit", code |-> code, stdout |-> stdout]

Processes ==
    {Exited(code, stdout) : code \in {0, 1}, stdout \in {"", "Sink #0 ..."}}
    \cup {[kind |-> "timeout", code |-> 0, stdout |-> ""],
          [kind |-> "missing", code |-> 0, stdout |-> ""]}

\* the commands the engine runs
PactlVerbs ==
    MutatingVerbs \cup {"list sinks", "list sinks short", "list modules",
                        "list sink-inputs", "list cards short", "info"}

\* subprocess.run(args, check=check, timeout=5): the exception it raises
SubprocessRun(proc, check) ==
    IF proc.kind = "missing" THEN "FileNotFoundError"
    ELSE IF proc.kind = "timeout" THEN "TimeoutExpired"
    ELSE IF check /\ proc.code # 0 THEN "CalledProcessError"
    ELSE "none"

\* what run_cmd returns: a str or a bool
Str(text) == [is_str |-> TRUE, str |-> text, bool |-> FALSE]
Bool(b) == [is_str |-> FALSE, str |-> "", bool |-> b]

\* run_cmd(*args, capture): the capturing form calls subprocess.run without
\* check and returns result.stdout; the other calls it with check=True and
\* returns True; the three exceptions are caught
RunCmdReturn(capture, proc) ==
    [raised |-> SubprocessRun(proc, ~capture) \notin
                    {"none", "CalledProcessError", "TimeoutExpired", "FileNotFoundError"},
     value |-> IF SubprocessRun(proc, ~capture) # "none"
               THEN (IF capture THEN Str("") ELSE Bool(FALSE))
               ELSE (IF capture THEN Str(proc.stdout) ELSE Bool(TRUE)),
     attempts |-> 1]

\* one call of run_cmd
RunCmdCall(verb, capture, proc) ==
    /\ last' = [op |-> "run_cmd", verb |-> verb, capture |-> capture, proc |-> proc,
                ret |-> RunCmdReturn(capture, proc)]
    /\ UNCHANGED <<pa, cfg, is_pipewire, state, lock, pc, hist, mon, job>>

NextRunCmd ==
    \E verb \in PactlVerbs, capture \in BOOLEAN, proc \in Processes :
        RunCmdCall(verb, capture, proc)

SpecRunCmd == Init /\ [][NextRunCmd]_vars

---------------------------------------------------------------------------
(* Passes in which a call of run_cmd fails: pactl times out, exits         *)
(* non-zero or is not found, once, at any point of the pass.               *)

FailureSets == {{n} : n \in 1..MaxCall}

\* a pass whose calls in F fail
FailingPass(F) ==
    /\ lock = ""
    /\ SetupSyncEffect(F, mon)
    /\ UNCHANGED <<lock, pc, job>>

NextFail ==
    \/ setup_sync
    \/ \E F \in FailureSets : FailingPass(F)
    \/ \E d \in HwSinks : Plug(d)
    \/ \E d \in HwSinks : Unplug(d, FALSE)

SpecFail == Init /\ [][NextFail]_vars

---------------------------------------------------------------------------
(* Every public operation under either strategy flag, the server being     *)
(* replaced under the running engine.                                      *)

\* the loopbacks of ours in the listing, as module id -> expected sink
ModuleToSink(mods) ==
    [id \in LoopbackIdsIn(mods) |->
        mods[CHOOSE i \in 1..Len(mods) : mods[i].id = id].sink]

\* the sink inputs owned by a loopback of ours that play on another listed
\* sink than the one the module names
RECURSIVE Misrouted(_, _, _)
Misrouted(inputs, module_to_sink, sinks_short) ==
    IF inputs = <<>> THEN <<>>
    ELSE (IF /\ Head(inputs).owner # 0
             /\ Head(inputs).owner \in DOMAIN module_to_sink
             /\ module_to_sink[Head(inputs).owner] \in SeqToSet(sinks_short)
             /\ Head(inputs).sink # module_to_sink[Head(inputs).owner]
          THEN <<Head(inputs)>> ELSE <<>>)
         \o Misrouted(Tail(inputs), module_to_sink, sinks_short)

RECURSIVE MoveBack(_, _, _, _)
MoveBack(c, F, inputs, module_to_sink) ==
    IF inputs = <<>> THEN c
    ELSE MoveBack(run_cmd(c, F, Cmd("move-sink-input", Head(inputs).id,
                                    module_to_sink[Head(inputs).owner])),
                  F, Tail(inputs), module_to_sink)

\* _fix_loopback_routing_locked: three queries (sink inputs, sinks short,
\* modules), then a move for every misrouted loopback stream
_fix_loopback_routing_locked(c, F) ==
    IF ~Answered(c, F, 1) \/ ListSinkInputs(c.pa) = <<>> THEN Queried(c, 1)
    ELSE MoveBack(Queried(c, 3), F,
                  Misrouted(ListSinkInputs(c.pa),
                            IF Answered(c, F, 3) THEN ModuleToSink(c.pa.modules)
                            ELSE [id \in {} |-> NoSink],
                            IF Answered(c, F, 2) THEN ListSinks(c.pa) ELSE <<>>),
                  IF Answered(c, F, 3) THEN ModuleToSink(c.pa.modules)
                  ELSE [id \in {} |-> NoSink])

\* what fix_loopback_routing leaves: r is what _refresh_state gave
RoutingFixed(r, c) ==
    /\ pa' = Compact(c.pa)
    /\ state' = Cache(c.pa, r.st)
    /\ Notified(mon, c.pa)
    /\ last' = [op |-> "fix_loopback_routing", pre |-> pa, log |-> c.log]

\* AudioBackend.fix_loopback_routing: nothing at all in PipeWire mode
fix_loopback_routing ==
    /\ lock = ""
    /\ IF is_pipewire
       THEN /\ last' = [op |-> "fix_loopback_routing", pre |-> pa, log |-> <<>>]
            /\ UNCHANGED <<pa, state, mon>>
       ELSE RoutingFixed(_refresh_state(Ctx(pa), NoFail, is_pipewire),
                         _fix_loopback_routing_locked(
                             _refresh_state(Ctx(pa), NoFail, is_pipewire).c, NoFail))
    /\ hist' = [hist EXCEPT !.fresh = FALSE]
    /\ UNCHANGED <<cfg, is_pipewire, lock, pc, job>>

NextMix ==
    \/ setup_sync
    \/ \E d \in HwSinks : set_analog_offset(d, 150)
    \/ fix_loopback_routing
    \/ cleanup
    \/ \E d \in HwSinks : Plug(d)
    \/ \E server \in {"PulseAudio", "PipeWire"} : ServerReplaced(server)

SpecMix == InitStrategy /\ [][NextMix]_vars

---------------------------------------------------------------------------
(* set_analog_offset takes the name of any sink: a device, the virtual     *)
(* sink, the equalizer's sink.                                             *)

NextBind ==
    \/ setup_sync
    \/ cleanup
    \/ Plug(Card1)
    \/ Unplug(Card1, FALSE)
    \/ EqualizerEnable
    \/ \E s \in {Card1, virtual_sink, EqSink} : set_analog_offset(s, 0)

SpecBind == Init /\ [][NextBind]_vars

---------------------------------------------------------------------------
(* The configuration store on its own: the delay setters, called with any  *)
(* integer.                                                                *)

\* the values tried: below and at the lower boundary, the two defaults, a
\* value inside the range, the upper boundary and beyond
Delays == {-5, 0, 1, 121, 200, 500, 600}

\* one call of a setter of Config
ConfigSet(setter, cf) ==
    /\ cfg' = cf
    /\ last' = [op |-> "config", setter |-> setter]
    /\ UNCHANGED <<pa, is_pipewire, state, lock, pc, hist, mon, job>>

NextConfig ==
    \/ \E d \in HwSinks, ms \in Delays :
          ConfigSet("set_device_delay", set_device_delay(cfg, d, ms))
    \/ \E ms \in Delays :
          ConfigSet("set_default_analog_delay", set_default_analog_delay(cfg, ms))
    \/ \E ms \in Delays :
          ConfigSet("set_default_bt_delay", set_default_bt_delay(cfg, ms))
    \/ \E ms \in Delays : ConfigSet("jack_delay", jack_delay_setter(cfg, ms))

SpecConfig == Init /\ [][NextConfig]_vars

---------------------------------------------------------------------------
(* The application is closed and started again.  Closing it stops the      *)
(* monitor and unloads nothing, so the new AudioBackend() is constructed   *)
(* over the modules the old one left in the server, and probes the server  *)
(* anew.                                                                   *)

Restarted(probe_ok) ==
    /\ is_pipewire' = _detect_pipewire(pa, probe_ok)
    /\ state' = AudioState(FALSE)
    /\ lock' = ""
    /\ pc' = [t \in Callers |-> "idle"]
    /\ last' = None
    /\ hist' = [fresh |-> FALSE, born |-> [server |-> pa.server, probe_ok |-> probe_ok]]
    /\ mon' = NoMonitor
    /\ job' = NoJob
    /\ UNCHANGED <<pa, cfg>>

NextGhost ==
    \/ setup_sync
    \/ \E d \in HwSinks : Plug(d)
    \/ \E d \in HwSinks : Unplug(d, FALSE)
    \/ \E probe_ok \in BOOLEAN : Restarted(probe_ok)

SpecGhost == Init /\ [][NextGhost]_vars

---------------------------------------------------------------------------
(* What the properties read.                                               *)

\* the last step was a reconcile pass
Pass == last.op = "setup_sync"

\* the pass issued a command with one of these verbs
Issued(verbs) == \E i \in 1..Len(last.log) : last.log[i].c \in verbs

\* every command the pass issued was carried out
AllDone == \A i \in 1..Len(last.log) : last.log[i].ok

Links(p) == {i \in 1..Len(p.modules) : p.modules[i].name = Loopback}

\* the target of the default output: the equalizer when it is there
ResolvedTarget(p) == IF p.eq THEN EqSink ELSE virtual_sink

\* device d plays the combined output: it has a link, or is a bound slave
Plays(p, pw, d) ==
    IF pw
    THEN \E i \in 1..Len(p.modules) :
            /\ p.modules[i].name = CombineSink
            /\ p.modules[i].sink = virtual_sink
            /\ d \in SeqToSet(p.modules[i].slaves)
            /\ SeqToSet(p.modules[i].slaves) = HwSet(p)
    ELSE \E i \in Links(p) : p.modules[i].sink = d

\* the combined output and the links are there for the present devices
GraphBuilt(p, pw) ==
    /\ p.sinks # <<>>
    /\ VirtualSinkExists(p)
    /\ \A d \in HwSet(p) : Plays(p, pw, d)

Converged(p, pw) == GraphBuilt(p, pw) /\ p.def = ResolvedTarget(p)

C3_Convergence ==
    (/\ Pass /\ AllDone
     /\ last.pre.sinks # <<>>
     /\ ~VirtualSinkExists(last.pre)
     /\ Links(last.pre) = {}) =>
        /\ last.ok
        /\ VirtualSinkExists(pa)
        /\ \A d \in HwSet(pa) :
              /\ Plays(pa, is_pipewire, d)
              /\ ~is_pipewire =>
                    \A i \in Links(pa) :
                        pa.modules[i].sink = d =>
                            pa.modules[i].latency = get_device_delay(cfg, d)
        /\ pa.def = ResolvedTarget(pa)

C3_Witness ==
    /\ Pass /\ AllDone /\ last.ok
    /\ ~is_pipewire
    /\ Len(last.pre.sinks) = 2
    /\ ~VirtualSinkExists(last.pre)
    /\ Cardinality(Links(pa)) = 2

\* what get_state would return now
ObservedAfter == _refresh_state(Ctx(pa), NoFail, is_pipewire).st

\* the parts of the summary that report a device (or n devices) synced
DevicesReported(msg) ==
    IF \E i \in 1..Len(msg) : msg[i].t = "synced"
    THEN msg[CHOOSE i \in 1..Len(msg) : msg[i].t = "synced"].n
    ELSE Cardinality({i \in 1..Len(msg) : msg[i].t = "synced-device"})

\* C4: one analog and one Bluetooth device, no combined output, default
\* delays: the pass returns ok, its summary reports 2 devices synced, and the
\* state observed afterwards has both synced and the virtual sink as default.
C4_TwoDevices ==
    (/\ Pass
     /\ HwSet(last.pre) = {Card1, Speaker1}
     /\ ~VirtualSinkExists(last.pre)
     /\ cfg.default_analog_delay_ms = DEFAULT_ANALOG_DELAY
     /\ cfg.default_bt_delay_ms = DEFAULT_BT_DELAY) =>
        /\ last.ok
        /\ DevicesReported(last.msg) = 2
        /\ Len(ObservedAfter.devices) = 2
        /\ \A i \in 1..Len(ObservedAfter.devices) : ObservedAfter.devices[i].is_synced
        /\ ObservedAfter.default_sink = virtual_sink

C4_Witness ==
    /\ Pass /\ last.ok
    /\ is_pipewire
    /\ last.pre.sinks = <<Card1, Speaker1>>
    /\ ~VirtualSinkExists(last.pre)
    /\ pa.def = virtual_sink

\* C5: on a converged graph a pass returns ok with a "sync active" message
\* and issues no load-module, unload-module or set-default-sink, also when
\* the equalizer sink is present.
C5_ConvergedIsQuiet ==
    (Pass /\ Converged(last.pre, is_pipewire)) =>
        /\ last.ok
        /\ \E i \in 1..Len(last.msg) : last.msg[i].t = "active"
        /\ ~Issued({"load-module", "unload-module", "set-default-sink"})

\* C6: with the equalizer sink there and the rest of the graph built, but
\* the default output or a stream not on it, a pass ends with the default
\* output on the equalizer sink and every application stream moved onto it.
C6_EqualizerRoutingRestored ==
    (/\ Pass
     /\ last.pre.eq
     /\ GraphBuilt(last.pre, is_pipewire)
     /\ \/ last.pre.def # EqSink
        \/ \E i \in 1..Len(last.pre.streams) : last.pre.streams[i].sink # EqSink) =>
        /\ pa.def = EqSink
        /\ \A i \in 1..Len(pa.streams) : pa.streams[i].sink = EqSink

\* C10: with no output device detected a pass returns failure with the
\* no-devices message and issues no mutating command.
C10_NoDevicesNoChange ==
    (Pass /\ last.pre.sinks = <<>>) =>
        /\ ~last.ok
        /\ last.msg = <<Msg("no-devices", 0, NoSink)>>
        /\ ~Issued(MutatingVerbs)



\* C1: at most one caller is in the body of setup_sync at any time, and it
\* is the holder of the lock; whoever arrives meanwhile waits.
C1_OnePassAtATime ==
    /\ \A t, u \in Callers : (pc[t] \in InBody /\ pc[u] \in InBody) => t = u
    /\ \A t \in Callers : pc[t] \in InBody => lock = t

C1_Witness ==
    \E t, u \in Callers : pc[t] = "returning" /\ pc[u] = "waiting" /\ Pass /\ last.ok

\* the pass loaded a module of one of these names
Loaded(names) ==
    \E i \in 1..Len(last.log) : last.log[i].c = "load-module" /\ last.log[i].a \in names

\* C9: the strategy flag is what the probe said when the engine was
\* constructed, whatever server answers now, and every pass follows it.
C9_StrategyFixed ==
    /\ is_pipewire = (hist.born.probe_ok /\ hist.born.server = "PipeWire")
    /\ Pass => /\ is_pipewire => ~Loaded({NullSink, Loopback})
               /\ ~is_pipewire => ~Loaded({CombineSink})

C9_Witness ==
    /\ Pass
    /\ last.pre.server = "PipeWire"
    /\ hist.born.server = "PulseAudio"
    /\ Loaded({Loopback})



\* the offset the slider allows that is nearest to ms
Nearest(ms) == IF ms < -150 THEN -150 ELSE IF ms > 150 THEN 150 ELSE ms

\* C7: set_analog_offset persists the offset clamped to [-150, 150], and the
\* delay it applies is the base delay plus that clamped offset, never below 0
\* (port offset, in usec) or 1 (link latency).
C7_OffsetClamped ==
    (last.op = "set_analog_offset") =>
        /\ cfg.device_offsets[last.sink] = Nearest(last.offset_ms)
        /\ \A i \in 1..Len(last.log) :
              /\ last.log[i].c = "load-module" =>
                    /\ last.log[i].b.latency >= 0
                    /\ last.log[i].b.latency =
                          Max(1, DEFAULT_ANALOG_DELAY + Nearest(last.offset_ms))
              /\ last.log[i].c = "set-port-latency-offset" =>
                    /\ last.log[i].b >= 0
                    /\ last.log[i].b =
                          1000 * Max(0, DEFAULT_ANALOG_DELAY + Nearest(last.offset_ms))
        /\ \A i \in Links(pa) :
              pa.modules[i].sink = last.sink =>
                  pa.modules[i].latency =
                      Max(1, DEFAULT_ANALOG_DELAY + Nearest(last.offset_ms))

C7_Witness ==
    /\ last.op = "set_analog_offset"
    /\ last.offset_ms > 150
    /\ ~is_pipewire
    /\ \E i \in Links(last.pre) : last.pre.modules[i].sink = last.sink
    /\ \E i \in Links(pa) :
          pa.modules[i].sink = last.sink
          /\ pa.modules[i].latency = DEFAULT_ANALOG_DELAY + 150



Enumeration == last.op = "list_movable_sink_inputs"

\* the module of the graph with this id is a loopback or a combine-sink
OwnedByInfrastructure(p, owner) ==
    \E i \in 1..Len(p.modules) :
        p.modules[i].id = owner /\ p.modules[i].name \in {Loopback, CombineSink}

InfrastructureNames == {"module-loopback", "module-ladspa-sink", "module-combine-sink"}

\* C8 (as stated, every listing returning output): a stream is left out of
\* the list if its owner is a loopback or combine-sink module or its
\* application name is an infrastructure name, and every other stream is in.
C8_OnlyOwnerAndNameExclude ==
    (Enumeration /\ last.F = {}) =>
        \A i \in 1..Len(ListSinkInputs(last.pre)) :
            (ListSinkInputs(last.pre)[i].id \notin SeqToSet(last.ids))
                <=> \/ OwnedByInfrastructure(last.pre, ListSinkInputs(last.pre)[i].owner)
                    \/ ListSinkInputs(last.pre)[i].app \in InfrastructureNames

\* the stream is left out: by its owner (as far as the module listings,
\* queries 2 and 3, returned output), driver, application name or media name
LeftOut(x, p, F) ==
    \/ 2 \notin F /\ \E i \in 1..Len(p.modules) :
                        p.modules[i].id = x.owner /\ p.modules[i].name = Loopback
    \/ 3 \notin F /\ \E i \in 1..Len(p.modules) :
                        p.modules[i].id = x.owner /\ p.modules[i].name = CombineSink
    \/ \E i \in 1..Len(x.driver) : x.driver[i] \in {"module-loopback", "module-combine-sink"}
    \/ x.app \in InfrastructureNames
    \/ \E i \in 1..Len(x.media) : x.media[i] \in {"Loopback", "Simultaneous"}

\* C8 (amended): a stream is left out of the list exactly when its owner is a
\* loopback or combine-sink module the module listings report, or its driver
\* names one of the two, or its application name is an infrastructure name,
\* or its media name holds Loopback or Simultaneous; every other listed
\* stream is in, once; with no sink-input listing the list is empty.
C8_FourRulesExclude ==
    Enumeration =>
        IF 1 \in last.F THEN last.ids = <<>>
        ELSE /\ \A i \in 1..Len(ListSinkInputs(last.pre)) :
                   (ListSinkInputs(last.pre)[i].id \notin SeqToSet(last.ids))
                       <=> LeftOut(ListSinkInputs(last.pre)[i], last.pre, last.F)
             /\ \A i, j \in 1..Len(last.ids) : last.ids[i] = last.ids[j] => i = j
             /\ SeqToSet(last.ids) \subseteq
                   {ListSinkInputs(last.pre)[i].id : i \in 1..Len(ListSinkInputs(last.pre))}

C8_Witness ==
    /\ Enumeration /\ last.F = {}
    /\ last.pre.streams[1].owner = 0
    /\ last.pre.streams[1].app = "Firefox"
    /\ last.pre.streams[1].driver = <<"protocol-native", "c">>
    /\ Contains(last.pre.streams[1].media, "Loopback")
    /\ last.ids = <<>>


Cleanup == last.op = "cleanup"

\* the streams list_movable_sink_inputs would name now
MovableNow(p) == SeqToSet(list_movable_sink_inputs(Ctx(p), NoFail).ids)

\* C11: after cleanup() with every command carried out, no loopback of ours
\* and no null-sink or combine-sink bearing the virtual sink's name remains;
\* with a hardware sink present the default output is a hardware sink, an
\* analog one if there is any and a Bluetooth one otherwise, and every
\* movable stream plays on it.
C11_CleanupRestoresHardware ==
    (Cleanup /\ AllDone) =>
        /\ Links(pa) = {}
        /\ \A i \in 1..Len(pa.modules) : ~BearsVirtualName(pa.modules[i])
        /\ pa.sinks # <<>> =>
              /\ pa.def \in HwSet(pa)
              /\ IF \E d \in HwSet(pa) : StartsWith(d, "alsa_output")
                 THEN StartsWith(pa.def, "alsa_output")
                 ELSE StartsWith(pa.def, "bluez_sink")
              /\ \A i \in 1..Len(ListSinkInputs(pa)) :
                    ListSinkInputs(pa)[i].id \in MovableNow(pa) =>
                        ListSinkInputs(pa)[i].sink = pa.def

C11_Witness ==
    /\ Cleanup /\ AllDone
    /\ last.pre.sinks = <<Speaker1, Card1>>
    /\ Cardinality(Links(last.pre)) = 2
    /\ VirtualSinkExists(last.pre)
    /\ last.pre.def = virtual_sink
    /\ Len(last.pre.streams) = 1 /\ last.pre.streams[1].sink = virtual_sink
    /\ pa.def = Card1
    /\ pa.modules = <<>>
    /\ pa.streams[1].sink = Card1


\* C12: every mutating command of a public operation is issued by a thread
\* that holds the engine lock (whoever has run a pass and not yet returned,
\* and the issuer of any other command), and get_state never observes the graph while
\* another operation is part-way through its commands.
C12_CommandsUnderLock ==
    /\ \A t \in Callers : pc[t] = "returning" => lock = t
    /\ last.op = "command" => lock = last.by
    /\ last.op = "get_state" => job = NoJob


\* the listener threads there have been
Threads == 1..Len(mon.threads)

\* the thread has read a sink line and is on its way to reconcile for it
Handling(i) == mon.threads[i].pc = "debounce"

\* C13: a sink event that arrives while a listener is in its debounce or
\* its pass collapses into that pass: no listener ever sets out on a pass
\* for a line that was written while it was handling an earlier one.
C13_EventsCollapse ==
    \A i \in Threads : Handling(i) => ~mon.threads[i].line.during

\* C14: once stop_monitor has lowered the flag, a listener that is still
\* alive gets to the while test and ends without a further line from the
\* event stream: it is never left waiting in readline on an empty pipe.
C14_StoppedListenerLeaves ==
    \A i \in Threads :
        (~mon.running /\ mon.threads[i].pc = "reading") => mon.threads[i].pipe # <<>>

\* C15: whatever start_monitor, stop_monitor and cleanup calls were made, at
\* most one listener thread is alive and handling events.
C15_OneListener ==
    /\ Cardinality(Alive(mon)) <= 1
    /\ \A i, j \in Threads : (Handling(i) /\ Handling(j)) => i = j


\* the child timed out, exited non-zero, or had no executable
ProcessFailed(proc) == proc.kind \in {"timeout", "missing"} \/ proc.code # 0

\* C16: run_cmd never raises; when the child times out, exits non-zero or
\* has no executable the capturing form returns empty text and the other
\* form returns False; and it runs the child once.
C16_RunCmdFailsEmpty ==
    (last.op = "run_cmd") =>
        /\ ~last.ret.raised
        /\ last.ret.attempts = 1
        /\ ProcessFailed(last.proc) =>
              last.ret.value = (IF last.capture THEN Str("") ELSE Bool(FALSE))


\* the modules that bear the virtual sink's name
Bearing(p) == {i \in 1..Len(p.modules) : BearsVirtualName(p.modules[i])}

\* one virtual sink at most, one link per device at most
NoDuplicates(p) ==
    /\ Cardinality(Bearing(p)) <= 1
    /\ \A i, j \in Links(p) : p.modules[i].sink = p.modules[j].sink => i = j

\* C17: with devices present, a pass in which a query or command fails adds
\* no second virtual sink and no duplicate link to a graph that had none,
\* and a pass whose calls all succeed, whatever failed before it, ends
\* converged and without duplicates.
C17_FailureChangesNothing ==
    (Pass /\ last.pre.sinks # <<>>) =>
        /\ (last.F # {} /\ NoDuplicates(last.pre)) => NoDuplicates(pa)
        /\ (last.F = {}) => (Converged(pa, is_pipewire) /\ NoDuplicates(pa))


\* C18: a pass unloads every module that bears the virtual sink's name
\* before it loads a new one, and leaves at most one such module, in both
\* backend modes.
C18_GhostsUnloadedFirst ==
    Pass =>
        /\ Cardinality(Bearing(pa)) <= 1
        /\ \A i \in 1..Len(last.log) :
              (last.log[i].c = "load-module" /\ last.log[i].a \in {NullSink, CombineSink}) =>
                  \A g \in Bearing(last.pre) :
                      \E j \in 1..(i - 1) :
                          /\ last.log[j].c = "unload-module"
                          /\ last.log[j].a = last.pre.modules[g].id


\* C19: after every pass that returns ok the default output is the virtual
\* sink, or the equalizer sink when that exists; a pass that finds the
\* combined output right and the default elsewhere sets the default.
C19_DefaultOnTarget ==
    (Pass /\ last.ok) => pa.def = ResolvedTarget(pa)

\* C20: link-based mode: after a successful pass the link of every available
\* device carries the delay the configuration resolves for that device; a
\* link with another delay has been unloaded and loaded again.
C20_LinksCarryResolvedDelay ==
    (Pass /\ ~is_pipewire /\ last.ok) =>
        \A i \in Links(pa) :
            pa.modules[i].sink \in HwSet(pa) =>
                pa.modules[i].latency = get_device_delay(cfg, pa.modules[i].sink)


\* the delay set_analog_offset applies to a link for the stored offset
EffectiveDelay(cf, d) == Max(1, DEFAULT_ANALOG_DELAY + get_device_offset(cf, d))

\* C21: link-based mode: a link that a pass creates for an analog device
\* carries the analog base delay plus the offset stored for that device, the
\* delay set_analog_offset applied when the offset was set.
C21_PassAppliesStoredOffset ==
    (Pass /\ ~is_pipewire) =>
        \A i \in 1..Len(last.log) :
            (/\ last.log[i].c = "load-module"
             /\ last.log[i].a = Loopback
             /\ StartsWith(last.log[i].b.sink, "alsa_output")) =>
                last.log[i].b.latency = EffectiveDelay(cfg, last.log[i].b.sink)


\* the combine-sinks that bear the virtual sink's name
Combined(p) ==
    {i \in 1..Len(p.modules) :
        p.modules[i].name = CombineSink /\ p.modules[i].sink = virtual_sink}

\* the position in the pass's log of the first command of this kind, 0 if none
FirstIssued(verb, a) ==
    IF \E i \in 1..Len(last.log) : last.log[i].c = verb /\ last.log[i].a = a
    THEN CHOOSE i \in 1..Len(last.log) :
            /\ last.log[i].c = verb /\ last.log[i].a = a
            /\ \A j \in 1..(i - 1) : ~(last.log[j].c = verb /\ last.log[j].a = a)
    ELSE 0

\* C22: native mode: after a pass that returns ok there is one combined
\* output and its slaves are the devices present; and when the pass found a
\* combined output whose slaves were not the devices present, it unloaded
\* that module before it loaded the new one.
C22_StaleCombineRebuilt ==
    (Pass /\ is_pipewire /\ last.ok) =>
        /\ Cardinality(Combined(pa)) = 1
        /\ \A i \in Combined(pa) : SeqToSet(pa.modules[i].slaves) = HwSet(pa)
        /\ \A g \in Combined(last.pre) :
              SeqToSet(last.pre.modules[g].slaves) # HwSet(last.pre) =>
                  /\ FirstIssued("unload-module", last.pre.modules[g].id) > 0
                  /\ FirstIssued("load-module", CombineSink) >
                        FirstIssued("unload-module", last.pre.modules[g].id)

C22_Witness ==
    /\ Pass /\ is_pipewire /\ last.ok
    /\ \E g \in Combined(last.pre) : last.pre.modules[g].slaves = <<Card1, Speaker1>>
    /\ last.pre.sinks = <<Speaker1>>
    /\ \E i \in Combined(pa) : pa.modules[i].slaves = <<Speaker1>>


\* the last step was an operation of the engine that issues commands
Operation ==
    last.op \in {"setup_sync", "set_analog_offset", "fix_loopback_routing", "cleanup"}

\* C23: the strategy flag stays what the probe said at construction; with
\* the flag up no operation issues a load of a null-sink or a loopback, and
\* with the flag down none issues a load of a combine-sink or a port latency
\* offset.
C23_StrategiesNeverMixed ==
    /\ is_pipewire = (hist.born.probe_ok /\ hist.born.server = "PipeWire")
    /\ Operation =>
          /\ is_pipewire => ~Loaded({NullSink, Loopback})
          /\ ~is_pipewire => (~Loaded({CombineSink}) /\ ~Issued({"set-port-latency-offset"}))

C23_Witness ==
    /\ last.op = "set_analog_offset"
    /\ is_pipewire
    /\ last.pre.server = "PulseAudio"
    /\ Issued({"set-port-latency-offset"}) /\ AllDone
    /\ VirtualSinkExists(last.pre)


\* the links of the graph whose sink is not listed
Orphans(p) == {i \in Links(p) : p.modules[i].sink \notin HwSet(p)}

\* C24: link-based mode: a pass unloads no module, so every module it found
\* is still there afterwards, the links to sinks no longer listed among
\* them, and it loads no link for a sink that is not listed; a cleanup
\* whose commands are carried out leaves no link at all.
C24_OrphanLinkLeftToCleanup ==
    /\ (Pass /\ ~is_pipewire) =>
          /\ ~Issued({"unload-module"})
          /\ Len(pa.modules) >= Len(last.pre.modules)
          /\ \A i \in 1..Len(last.pre.modules) : pa.modules[i] = last.pre.modules[i]
          /\ \A i \in 1..Len(last.log) :
                (last.log[i].c = "load-module" /\ last.log[i].a = Loopback) =>
                    last.log[i].b.sink \in HwSet(last.pre)
    /\ (Cleanup /\ AllDone) => Orphans(pa) = {}

C24_Witness ==
    /\ Pass /\ ~is_pipewire /\ last.ok
    /\ \E i \in Orphans(last.pre) : last.pre.modules[i].sink = Card1
    /\ \E i \in Orphans(pa) : pa.modules[i].sink = Card1
    /\ Loaded({Loopback})


\* the command at position i of the log was preceded by this one
Before(i, verb, a, b) ==
    \E j \in 1..(i - 1) :
        last.log[j].c = verb /\ last.log[j].a = a /\ last.log[j].b = b

\* C25: every load of a link that a pass or set_analog_offset issues names
\* the virtual sink's monitor as source and carries source_dont_move,
\* sink_dont_move and adjust_time=0; and a pass has unmuted the device and
\* set it to full volume before it loads the device's link.
C25_LinksAnchored ==
    (last.op \in {"setup_sync", "set_analog_offset"}) =>
        \A i \in 1..Len(last.log) :
            (last.log[i].c = "load-module" /\ last.log[i].a = Loopback) =>
                /\ last.log[i].b.source = virtual_sink \o <<"monitor">>
                /\ {"source_dont_move=true", "sink_dont_move=true", "adjust_time=0"}
                      \subseteq last.log[i].b.flags
                /\ Pass => /\ Before(i, "set-sink-mute", last.log[i].b.sink, 0)
                           /\ Before(i, "set-sink-volume", last.log[i].b.sink, 100)

C25_Witness ==
    /\ Pass /\ AllDone
    /\ last.pre.sinks = <<Card1, Speaker1>>
    /\ \E i \in Links(last.pre) :
          last.pre.modules[i].sink = Card1
          /\ last.pre.modules[i].latency = DEFAULT_ANALOG_DELAY + 150
    /\ \E i \in 1..Len(last.log) :
          /\ last.log[i].c = "load-module" /\ last.log[i].a = Loopback
          /\ last.log[i].b.sink = Speaker1



\* the name holds a marker of the Bluetooth stack
BluetoothMarked(name) == Contains(name, "bluez_sink") \/ Contains(name, "bluez_output")

\* the sinks of ours, which are no destinations
Infrastructure == {virtual_sink, EqSink}

\* the devices in the topology cache are classified by their names, the
\* virtual sink and the equalizer's sink not among them
DevicesClassified ==
    \A i \in 1..Len(state.devices) :
        /\ state.devices[i].sink_name \notin Infrastructure
        /\ state.devices[i].device_type =
              (IF BluetoothMarked(state.devices[i].sink_name) THEN "bluetooth" ELSE "analog")

\* C26: detected devices are Bluetooth when their name holds a Bluetooth
\* marker and analog otherwise, the virtual sink and the equalizer's sink
\* are never among them, and so no operation gets a combined output loaded
\* with one of the two as a slave, or a link loaded with one of the two as
\* its sink.
C26_InfrastructureNeverBound ==
    /\ DevicesClassified
    /\ (last.op \in {"setup_sync", "set_analog_offset"}) =>
          \A i \in 1..Len(last.log) :
              (last.log[i].c = "load-module" /\ last.log[i].ok) =>
                  /\ last.log[i].a = Loopback => last.log[i].b.sink \notin Infrastructure
                  /\ last.log[i].a = CombineSink =>
                        SeqToSet(last.log[i].b.slaves) \cap Infrastructure = {}

\* the devices an operation detects on the graph it starts from
Detected(p) == _detect_all_devices(ListSinks(p), ListSinks(p))

DetectedNames(p) == {Detected(p)[i].sink_name : i \in 1..Len(Detected(p))}

\* the command at position i of the log loaded a link
LinkLoaded(i) ==
    last.log[i].c = "load-module" /\ last.log[i].a = Loopback /\ last.log[i].ok

\* C27: no pass and no set_analog_offset gets a link loaded whose sink is not
\* among the devices detected in that operation, or while there is no
\* virtual sink; set_analog_offset on a sink that is not a detected device
\* loads no link.
C27_LinksOnlyToDetectedDevices ==
    (last.op \in {"setup_sync", "set_analog_offset"}) =>
        \A i \in 1..Len(last.log) :
            LinkLoaded(i) =>
                /\ last.log[i].b.sink \in DetectedNames(last.pre)
                /\ VirtualSinkExists(pa)


\* C28: the delay resolved for a device is its stored override if there is
\* one, else the default of its class; and the stored overrides and the two
\* defaults lie in 1..500 whatever the setters were given.
C28_DelaysResolvedAndBounded ==
    /\ \A d \in HwSinks :
          get_device_delay(cfg, d) =
              (IF d \in DOMAIN cfg.device_delays THEN cfg.device_delays[d]
               ELSE IF d = Speaker1 THEN cfg.default_bt_delay_ms
               ELSE cfg.default_analog_delay_ms)
    /\ \A d \in DOMAIN cfg.device_delays : cfg.device_delays[d] \in 1..500
    /\ cfg.default_analog_delay_ms \in 1..500
    /\ cfg.default_bt_delay_ms \in 1..500


\* C29: when a pass or a cleanup has changed the default output, every
\* stream that the movable-stream list names plays on the sink that is the
\* default output when the operation is over.
C29_StreamsFollowDefault ==
    ((Pass \/ Cleanup) /\ pa.def # last.pre.def) =>
        \A i \in 1..Len(ListSinkInputs(pa)) :
            ListSinkInputs(pa)[i].id \in MovableNow(pa) =>
                ListSinkInputs(pa)[i].sink = pa.def

C29_Witness ==
    /\ Pass /\ last.ok /\ ~pa.eq
    /\ last.pre.def = Card1
    /\ Len(last.pre.streams) = 1 /\ last.pre.streams[1].sink = Card1
    /\ pa.def = virtual_sink
    /\ pa.streams[1].sink = virtual_sink
    /\ Issued({"move-sink-input"})


\* C30: no pass (of the user, the timer or the monitor) and no cleanup
\* restarts the audio services; factory_reset stops the monitor, tears the
\* modules down, clears the state files, restarts the services, waits, and
\* returns success.
C30_FactoryResetRunsThrough ==
    /\ (last.op \in {"setup_sync", "cleanup"}) => ~Issued({"restart-services"})
    /\ (last.op = "factory_reset") =>
          /\ ~last.monitor_running
          /\ last.steps =
                <<"stop_monitor", "teardown", "clear_state", "restart", "wait", "return">>
          /\ ~last.raised
          /\ last.ok


\* C31: an exception raised by the pass or by the callback while a listener
\* handles a sink line does not end the listener: the handling leaves it at
\* the while test, and a listener ends nowhere but at the while test, once
\* the flag is down.
C31_ExceptionKeepsListener ==
    [][/\ (last'.op = "raised" /\ last' # last) => mon'.threads[last'.by].pc = "loop"
       /\ \A i \in Threads :
              (mon.threads[i].pc # "ended" /\ mon'.threads[i].pc = "ended")
                  => (mon.threads[i].pc = "loop" /\ ~mon.running)]_vars

\* a listener that swallowed an exception has read the next sink line and is
\* about to reconcile for it
C31_Witness ==
    /\ last.op = "raised"
    /\ mon.running
    /\ mon.threads[last.by].pc = "debounce"


\* the equalizer's module was unloaded by the operation just over
EqUnloaded ==
    /\ last.op \in {"equalizer_disable", "equalizer_apply_bands"}
    /\ last.unloaded

\* the application streams attached to the sink in graph p
Attached(p, sink) == {i \in 1..Len(p.streams) : p.streams[i].sink = sink}

\* C32: Equalizer.disable and Equalizer._apply_bands set the default output
\* to the master sink and move the streams there before they unload the
\* equalizer's module, so that no application stream is attached to eq_sink
\* at the moment the module is unloaded.
C32_EqualizerEmptiedBeforeUnload ==
    EqUnloaded =>
        /\ Before(FirstIssued("unload-module", EqModuleId),
                  "set-default-sink", virtual_sink, 0)
        /\ Attached(last.at_unload, EqSink) = {}


\* the modules of the sync infrastructure in graph p: what bears the virtual
\* sink's name, and the links
SyncModules(p) ==
    {i \in 1..Len(p.modules) :
        BearsVirtualName(p.modules[i]) \/ p.modules[i].name = Loopback}

\* C33: once the Cleanup button's audio.cleanup() has completed, and until
\* the user clicks Resync All, the combined output and the links stay
\* removed: no timer refresh and no device-list refresh loads them again.
C33_CleanupStaysUntilResync ==
    Removed => SyncModules(pa) = {}


\* C34: while the flag is down (stop_monitor was called, on its own or as
\* the first statement of cleanup), no listener goes from its debounce into
\* setup_sync and the callback, whatever lines the teardown wrote.
C34_StoppedListenerSilent ==
    [][~mon.running =>
          \A i \in Threads :
              ~(mon.threads[i].pc = "debounce" /\ mon'.threads[i].pc = "loop")]_vars


\* C35: a listener sets out on a reconcile only for a line on a sink; a line
\* on a sink-input, a source or a module never sends it there.
C35_OnlySinkEventsReconcile ==
    \A i \in Threads : Handling(i) => mon.threads[i].line.on = OnSinkEvent


\* the user's thread is inside stop_monitor's join
Joining == pc["user"] \in {"joining", "joining_cleanup"}

\* the listener has read a sink line and has not returned from setup_sync
Busy(i) == i \in Threads /\ mon.threads[i].pc \in {"debounce", "passing"}

\* the graph a pass from here leaves is within the bounds and its lines fit
PassFits(out) ==
    Len(out.c.pa.modules) <= MaxModules /\ Room(mon, Lines(pa, out.c.pa))

---------------------------------------------------------------------------
(* C37 *)

\* the loopback modules of p whose target is exactly the sink d
LinksTo(p, d) == {i \in Links(p) : p.modules[i].sink = d}

AllOk(log) == \A i \in 1..Len(log) : log[i].ok

\* C37: in link-based mode, whatever the interleaving of setup_sync calls
\* (monitor, timer, user) and set_analog_offset calls, at the end of every
\* such operation whose commands all succeeded each device has at most one
\* link from the virtual sink's monitor.
C37_AtMostOneLinkPerDevice ==
    (/\ ~is_pipewire
     /\ last.op \in {"setup_sync", "set_analog_offset"}
     /\ AllOk(last.log))
    => \A d \in TwinSinks : Cardinality(LinksTo(pa, d)) <= 1

\* an offset change replaced a device's link while another caller of
\* setup_sync was waiting for the lock and both cards were linked
C37_Witness ==
    /\ ~is_pipewire
    /\ last.op = "set_analog_offset"
    /\ AllOk(last.log)
    /\ LinksTo(last.pre, last.sink) # {}
    /\ \E t \in Callers : pc[t] = "waiting"
    /\ \A d \in TwinSinks : Cardinality(LinksTo(pa, d)) = 1

---------------------------------------------------------------------------
(* C38 *)

\* a device is reported as synced only if a link targets exactly it
SyncedByOwnLink ==
    \A i \in 1..Len(state.devices) :
        state.devices[i].is_synced => LinksTo(pa, state.devices[i].sink_name) # {}

\* an offset change on one device leaves the links of every other device
OthersLinksKept ==
    last.op = "set_analog_offset"
    => \A d \in TwinSinks \ {last.sink} :
           Cardinality(LinksTo(pa, d)) >= Cardinality(LinksTo(last.pre, d))

\* C38: per-device link state is independent: after a pass or an offset
\* change in link-based mode a device is reported as synced, and its links
\* are replaced by set_analog_offset, only on the basis of links whose target
\* is exactly that device, also when one sink name is a prefix of another.
C38_LinkStatePerDevice ==
    (/\ ~is_pipewire
     /\ last.op \in {"setup_sync", "set_analog_offset"}
     /\ AllOk(last.log))
    => SyncedByOwnLink /\ OthersLinksKept

---------------------------------------------------------------------------
(* C39 *)

\* a step of the environment: the graph changes and no operation did it
ExternalChange == last' = None /\ pa' # pa

\* the graph serves the devices that are there
Settled == pa.sinks = <<>> \/ Converged(pa, is_pipewire)

\* the listener waits in readline with nothing to read, and no pass is
\* waiting for the lock or running
NoPassPending ==
    /\ PipeDrained
    /\ mon.threads[1].pc = "reading"
    /\ pc["monitor"] = "idle"

=======================================================================
